---- MODULE Spec2Model ----
(***************************************************************************)
(* Model of the ai-chat backend gateway: the resilient transport           *)
(* (fetchWithRetry), the provider adapters and the capability router       *)
(* (callModelWithConfig) of backend/modelClients.js, and the message       *)
(* handler of backend/server.js.                                           *)
(*                                                                         *)
(* Text is modelled as a sequence of tokens; "includes" on an error        *)
(* message is containment of a token in that sequence.                     *)
(***************************************************************************)
EXTENDS Integers, Sequences, FiniteSets, TLC

(***************************************************************************)
(* Bounds of the model                                                     *)
(***************************************************************************)
\* largest value of cfg.retries explored
MaxRetries == 3

\* requests are accepted while fewer messages than this are stored
MaxMessages == 4

\* turns of one canvas session
MaxCanvasTurns == 3

(***************************************************************************)
(* Helpers                                                                 *)
(***************************************************************************)
RECURSIVE Pow2(_)
\* Math.pow(2, attempt)
Pow2(n) == IF n <= 0 THEN 1 ELSE 2 * Pow2(n - 1)

\* Math.min(a, b)
Min(a, b) == IF a <= b THEN a ELSE b

\* s.includes(tok), at token granularity
Includes(s, tok) == \E i \in 1..Len(s) : s[i] = tok

(***************************************************************************)
(* Resilient transport: fetchWithRetry                                     *)
(***************************************************************************)
\* defaults of the cfg destructuring
DefaultTimeoutMs == 60000
DefaultRetries == 2
DefaultBaseDelayMs == 600
DefaultMaxDelayMs == 2500

\* the cfg every adapter passes: { timeoutMs: 60000, retries: 2 } plus defaults
AdapterCfg ==
  [timeoutMs |-> 60000, retries |-> 2,
   baseDelayMs |-> DefaultBaseDelayMs, maxDelayMs |-> DefaultMaxDelayMs]

\* retry policies explored for one invocation
Cfgs ==
  [timeoutMs : {DefaultTimeoutMs},
   retries : 0..MaxRetries,
   baseDelayMs : {DefaultBaseDelayMs, 1000},
   maxDelayMs : {DefaultMaxDelayMs, 500}]

\* statuses the network may answer with
Statuses == {200, 204, 404, 429, 499, 500, 503, 599}

\* statuses explored when the transport runs inside a model call
CallStatuses == {200, 404, 500}

isRetryableStatusOnly429(status) == status = 429
isRetryableStatus4xx(status) == status >= 400 /\ status <= 599
isRetryableStatus(status) ==
  status = 429 \/ (status >= 500 /\ status <= 599)

\* the error a fetch rejects with once its AbortController is aborted by
\* controller.abort() without a reason: a DOMException whose name is
\* "AbortError" and whose message is the platform's sentence "This operation
\* was aborted"; the word AbortError is in err.name, not in err.message
AbortErr ==
  [name |-> "AbortError", message |-> <<"This", "operation", "was", "aborted">>]

\* errors a fetch may reject with on its own (connection reset, name
\* resolution, connect timeout, refused connection, platform wrapper)
TransportErrs ==
  { [name |-> "Error", message |-> <<"read", "ECONNRESET">>],
    [name |-> "Error", message |-> <<"getaddrinfo", "ENOTFOUND", "host">>],
    [name |-> "Error", message |-> <<"connect", "ETIMEDOUT">>],
    [name |-> "Error", message |-> <<"connect", "ECONNREFUSED">>],
    [name |-> "TypeError", message |-> <<"fetch", "failed">>] }

\* transport errors explored when the transport runs inside a model call
CallTransportErrs ==
  { [name |-> "Error", message |-> <<"read", "ECONNRESET">>],
    [name |-> "TypeError", message |-> <<"fetch", "failed">>] }

NoErr == [name |-> "none", message |-> <<>>]

\* msg = String(err?.message || err): the message, or for an empty message
\* the error's string form, which starts with its name
isRetryableError(err) ==
  LET msg == IF err.message # <<>> THEN err.message ELSE <<err.name>> IN
    \/ Includes(msg, "AbortError")
    \/ Includes(msg, "ETIMEDOUT")
    \/ Includes(msg, "ECONNRESET")
    \/ Includes(msg, "ENOTFOUND")
    \/ Includes(msg, "EAI_AGAIN")

BackoffNoCap(c, n) == c.baseDelayMs * Pow2(n)
\* Math.min(maxDelayMs, baseDelayMs * Math.pow(2, attempt))
Backoff(c, n) == Min(c.maxDelayMs, c.baseDelayMs * Pow2(n))

(***************************************************************************)
(* Model registry: MODEL_MAP                                               *)
(***************************************************************************)
Caps(r, w, v, c) == [reasoning |-> r, webSearch |-> w, vision |-> v, canvas |-> c]

ModelIds ==
  {"gpt-5", "gpt-5.1", "gpt-5.1-codex", "gpt-5-mini",
   "deepseek-chat", "deepseek-reasoner",
   "gemini-1.5-pro", "gemini-3-pro-preview"}

MODEL_MAP ==
  [id \in ModelIds |->
    CASE id = "gpt-5" ->
           [provider |-> "openai", model |-> id, capabilities |-> Caps(TRUE, TRUE, TRUE, TRUE)]
      [] id = "gpt-5.1" ->
           [provider |-> "openai", model |-> id, capabilities |-> Caps(TRUE, TRUE, TRUE, TRUE)]
      [] id = "gpt-5.1-codex" ->
           [provider |-> "openai", model |-> id, capabilities |-> Caps(TRUE, TRUE, FALSE, TRUE)]
      [] id = "gpt-5-mini" ->
           [provider |-> "openai", model |-> id, capabilities |-> Caps(FALSE, TRUE, TRUE, TRUE)]
      [] id = "deepseek-chat" ->
           [provider |-> "deepseek", model |-> id, capabilities |-> Caps(FALSE, FALSE, FALSE, FALSE)]
      [] id = "deepseek-reasoner" ->
           [provider |-> "deepseek", model |-> id, capabilities |-> Caps(TRUE, FALSE, FALSE, FALSE)]
      [] id = "gemini-1.5-pro" ->
           [provider |-> "gemini", model |-> id, capabilities |-> Caps(FALSE, FALSE, TRUE, FALSE)]
      [] id = "gemini-3-pro-preview" ->
           [provider |-> "gemini", model |-> id, capabilities |-> Caps(FALSE, FALSE, TRUE, FALSE)]]

\* a config that is no registry entry: provider is none of the three
\* adapters, model and capabilities are undefined
ForeignConfig ==
  [provider |-> "undefined", model |-> "undefined",
   capabilities |-> Caps(FALSE, FALSE, FALSE, FALSE)]

\* configs callModelWithConfig is called with
Configs == {MODEL_MAP[id] : id \in ModelIds} \cup {ForeignConfig}

(***************************************************************************)
(* Inputs of one model call                                                *)
(***************************************************************************)
\* a text is a sequence of tokens; the empty sequence is the empty string
\* (also standing for an absent value where the code tests truthiness)
Msg(role, content) == [role |-> role, content |-> content]

\* assembled contexts handed to the router
CallMessages ==
  { <<Msg("user", <<"hi">>)>>,
    <<Msg("system", <<"att">>), Msg("user", <<"q1">>),
      Msg("assistant", <<"a1">>), Msg("user", <<"q2">>)>> }

\* options of callModelWithConfig; outputTarget "" and canvasTitle <<>> are
\* the absent values
CallOptions ==
  [depthMode : BOOLEAN,
   webSearch : BOOLEAN,
   outputTarget : {"", "chat", "canvas"},
   canvasTitle : {<<>>, <<"T">>}]

\* process.env as the adapters read it; at most one key is missing
Envs ==
  { e \in [OPENAI_API_KEY : BOOLEAN, DEEPSEEK_API_KEY : BOOLEAN,
           GEMINI_API_KEY : BOOLEAN, OPENAI_WEB_SEARCH : {"1", ""}] :
      Cardinality({k \in {"o", "d", "g"} :
                     \/ (k = "o" /\ ~e.OPENAI_API_KEY)
                     \/ (k = "d" /\ ~e.DEEPSEEK_API_KEY)
                     \/ (k = "g" /\ ~e.GEMINI_API_KEY)}) <= 1 }

NoEnv ==
  [OPENAI_API_KEY |-> TRUE, DEEPSEEK_API_KEY |-> TRUE,
   GEMINI_API_KEY |-> TRUE, OPENAI_WEB_SEARCH |-> ""]

NoOptions ==
  [depthMode |-> FALSE, webSearch |-> FALSE, outputTarget |-> "", canvasTitle |-> <<>>]

(***************************************************************************)
(* Canonical results                                                       *)
(***************************************************************************)
\* canvas: null
NullCanvas == [isNull |-> TRUE, title |-> <<>>, content |-> <<>>]

Canvas(title, content) == [isNull |-> FALSE, title |-> title, content |-> content]

\* a plain string value
StringResult(text) == [kind |-> "string", text |-> text, canvas |-> NullCanvas]

\* an object { text, canvas }
ObjectResult(text, canvas) == [kind |-> "object", text |-> text, canvas |-> canvas]

\* an exception leaving the function
Thrown == [kind |-> "throw", text |-> <<>>, canvas |-> NullCanvas]

NoResult == [kind |-> "none", text |-> <<>>, canvas |-> NullCanvas]

\* the apology text of the router
ApologyMsg == <<"model-unavailable">>

\* title given to a canvas item without title
UntitledCanvas == <<"untitled-canvas">>

\* default of options.canvasTitle
DefaultCanvasTitle == <<"canvas">>

(***************************************************************************)
(* Response bodies                                                         *)
(***************************************************************************)
Part(type, text) == [type |-> type, text |-> text]

\* output items of a Responses API answer
MessageItem(parts) ==
  [type |-> "message", parts |-> parts, title |-> <<>>, content |-> <<>>]

CanvasItem(title, content) ==
  [type |-> "canvas", parts |-> <<>>, title |-> title, content |-> content]

OtherItem == [type |-> "reasoning", parts |-> <<>>, title |-> <<>>, content |-> <<>>]

\* a parsed JSON body: output (OpenAI), text (choices[0].message.content or
\* candidates[0].content.parts[0].text); valid = FALSE is a body res.json()
\* rejects
Body(output, text) == [valid |-> TRUE, output |-> output, text |-> text]

InvalidBody == [valid |-> FALSE, output |-> <<>>, text |-> <<>>]

OpenAIBodies ==
  { Body(<<MessageItem(<<Part("output_text", <<"hello">>)>>)>>, <<>>),
    Body(<<CanvasItem(<<"T1">>, <<"c1">>),
           MessageItem(<<Part("refusal", <<"no">>), Part("output_text", <<"a">>),
                         Part("output_text", <<"z">>)>>),
           CanvasItem(<<"T2">>, <<"c2">>),
           MessageItem(<<Part("output_text", <<"b">>)>>)>>, <<>>),
    Body(<<OtherItem, MessageItem(<<Part("output_text", <<"a">>)>>),
           CanvasItem(<<>>, <<"c1">>)>>, <<>>),
    Body(<<CanvasItem(<<>>, <<>>), MessageItem(<<Part("output_text", <<>>)>>)>>, <<>>),
    Body(<<>>, <<>>),
    InvalidBody }

TextBodies ==
  { Body(<<>>, <<"reply">>), Body(<<>>, <<"\n", "more", " ">>), Body(<<>>, <<>>),
    InvalidBody }

Bodies(provider) == IF provider = "openai" THEN OpenAIBodies ELSE TextBodies

\* item.content?.find(p => p.type === "output_text"), as the text it adds
RECURSIVE FindOutputText(_, _)
FindOutputText(parts, i) ==
  IF i > Len(parts) THEN <<>>
  ELSE IF parts[i].type = "output_text" THEN parts[i].text
  ELSE FindOutputText(parts, i + 1)

RECURSIVE ExtractLoopFirstWins(_, _, _)
ExtractLoopFirstWins(outputs, i, result) ==
  IF i > Len(outputs) THEN result
  ELSE LET item == outputs[i]
           t == IF item.type = "message"
                  THEN result.text \o FindOutputText(item.parts, 1)
                  ELSE result.text
           c == IF item.type = "canvas" /\ result.canvas.isNull
                  THEN Canvas(IF item.title # <<>> THEN item.title ELSE UntitledCanvas,
                              item.content)
                  ELSE result.canvas
       IN  ExtractLoopFirstWins(outputs, i + 1, ObjectResult(t, c))

\* the for loop of extractTextAndCanvas from item i on
RECURSIVE ExtractLoop(_, _, _)
ExtractLoop(outputs, i, result) ==
  IF i > Len(outputs) THEN result
  ELSE LET item == outputs[i]
           t == IF item.type = "message"
                  THEN result.text \o FindOutputText(item.parts, 1)
                  ELSE result.text
           c == IF item.type = "canvas"
                  THEN Canvas(IF item.title # <<>> THEN item.title ELSE UntitledCanvas,
                              item.content)
                  ELSE result.canvas
       IN  ExtractLoop(outputs, i + 1, ObjectResult(t, c))

extractTextAndCanvas(json) == ExtractLoop(json.output, 1, ObjectResult(<<>>, NullCanvas))

(***************************************************************************)
(* Capability router and provider adapters                                 *)
(***************************************************************************)
EffDepthModeIntentOnly(config, options) == options.depthMode
\* !!(options.depthMode && capabilities?.reasoning === true)
EffDepthMode(config, options) ==
  options.depthMode /\ config.capabilities.reasoning

\* !!(options.webSearch && capabilities?.webSearch === true)
EffWebSearch(config, options) ==
  options.webSearch /\ config.capabilities.webSearch

\* options.outputTarget || "chat"
OutputTarget(options) ==
  IF options.outputTarget # "" THEN options.outputTarget ELSE "chat"

\* options.canvasTitle || default
CanvasTitle(options) ==
  IF options.canvasTitle # <<>> THEN options.canvasTitle ELSE DefaultCanvasTitle

\* the adapter's API key is set
HasKey(env, provider) ==
  CASE provider = "openai" -> env.OPENAI_API_KEY
    [] provider = "deepseek" -> env.DEEPSEEK_API_KEY
    [] provider = "gemini" -> env.GEMINI_API_KEY
    [] OTHER -> FALSE

\* the adapter throws before any request: unknown provider or missing key
ThrowsBeforeRequest(config, env) ==
  \/ config.provider \notin {"openai", "deepseek", "gemini"}
  \/ ~HasKey(env, config.provider)

\* finalMessages.map(m => `${m.role}: ${m.content}`).join("\n")
RECURSIVE JoinLines(_, _)
JoinLines(msgs, i) ==
  IF i > Len(msgs) THEN <<>>
  ELSE (IF i > 1 THEN <<"\n">> ELSE <<>>)
         \o <<msgs[i].role, ":">> \o msgs[i].content
         \o JoinLines(msgs, i + 1)

CANVAS_SYSTEM_HINT == <<"canvas-system-hint">>

\* messages.filter(m => m.role !== "system").map(role user|model)
RECURSIVE GeminiContents(_, _)
GeminiContents(msgs, i) ==
  IF i > Len(msgs) THEN <<>>
  ELSE (IF msgs[i].role # "system"
          THEN <<Msg(IF msgs[i].role = "user" THEN "user" ELSE "model", msgs[i].content)>>
          ELSE <<>>)
         \o GeminiContents(msgs, i + 1)

\* no request was built
NoWire ==
  [provider |-> "none", model |-> "none", input |-> <<>>, turns |-> <<>>,
   reasoning |-> FALSE, tools |-> {}, temperature |-> 0]

\* the request body an adapter sends; temperature is in tenths, 0 = no field
WireRequest(config, messages, options, env) ==
  LET depthMode == EffDepthMode(config, options)
      webSearch == EffWebSearch(config, options)
  IN  CASE config.provider = "openai" ->
             [provider |-> "openai", model |-> config.model,
              input |-> JoinLines(
                 IF OutputTarget(options) = "canvas"
                   THEN <<Msg("system", CANVAS_SYSTEM_HINT)>> \o messages
                   ELSE messages, 1),
              turns |-> <<>>,
              reasoning |-> depthMode,
              tools |-> IF webSearch /\ env.OPENAI_WEB_SEARCH = "1"
                          THEN {"web_search"} ELSE {},
              temperature |-> 0]
        [] config.provider = "deepseek" ->
             [provider |-> "deepseek", model |-> config.model,
              input |-> <<>>, turns |-> messages,
              reasoning |-> FALSE, tools |-> {},
              temperature |-> IF depthMode THEN 2 ELSE 7]
        [] config.provider = "gemini" ->
             [provider |-> "gemini", model |-> config.model,
              input |-> <<>>, turns |-> GeminiContents(messages, 1),
              reasoning |-> FALSE, tools |-> {},
              temperature |-> IF depthMode THEN 2 ELSE 8]
        [] OTHER -> NoWire

\* res.ok
ResOk(status) == status >= 200 /\ status <= 299

\* an adapter that parses the body whatever the status
AdapterParseAnyStatus(provider, status, body) ==
  IF ~body.valid THEN Thrown
  ELSE IF provider = "openai" THEN extractTextAndCanvas(body)
  ELSE StringResult(body.text)

\* what the adapter returns (raw) or throws once fetchWithRetry returned a
\* response with this status and body
AdapterParse(provider, status, body) ==
  IF ~body.valid THEN Thrown
  ELSE IF ~ResOk(status) THEN Thrown
  ELSE IF provider = "openai" THEN extractTextAndCanvas(body)
  ELSE StringResult(body.text)

\* a catch block that swallows the failure without a message
SoftFailureSilent(outputTarget, canvasTitle) == StringResult(<<>>)

SoftFailureAlwaysString(outputTarget, canvasTitle) == StringResult(ApologyMsg)
\* the catch block of callModelWithConfig
SoftFailure(outputTarget, canvasTitle) ==
  IF outputTarget = "canvas"
    THEN ObjectResult(<<>>, Canvas(canvasTitle, ApologyMsg))
    ELSE StringResult(ApologyMsg)

\* a normalisation that wraps a string for every output target
NormalizeEveryTarget(raw, outputTarget, canvasTitle) ==
  IF raw.kind = "string"
    THEN IF outputTarget = "canvas"
           THEN ObjectResult(<<>>, Canvas(canvasTitle, raw.text))
           ELSE ObjectResult(raw.text, NullCanvas)
    ELSE raw

\* the normalisation of raw after the dispatch
Normalize(raw, outputTarget, canvasTitle) ==
  IF outputTarget = "canvas"
    THEN IF raw.kind = "string"
           THEN ObjectResult(<<>>, Canvas(canvasTitle, raw.text))
         ELSE IF raw.kind = "object"
           THEN IF ~raw.canvas.isNull
                     /\ (raw.canvas.content # <<>> \/ raw.canvas.title # <<>>)
                  THEN raw
                  ELSE ObjectResult(<<>>, Canvas(canvasTitle, raw.text))
         ELSE ObjectResult(<<>>, Canvas(canvasTitle, <<>>))
    ELSE raw

\* the value callModelWithConfig returns for an adapter outcome
RouterResult(options, raw) ==
  IF raw.kind = "throw"
    THEN SoftFailure(OutputTarget(options), CanvasTitle(options))
    ELSE Normalize(raw, OutputTarget(options), CanvasTitle(options))

(***************************************************************************)
(* Message handler of server.js: POST /api/chats/:id/messages              *)
(***************************************************************************)
\* whitespace tokens
IsSpace(tok) == tok \in {" ", "\n"}

\* String.prototype.trim
RECURSIVE TrimLeft(_)
TrimLeft(s) == IF s # <<>> /\ IsSpace(Head(s)) THEN TrimLeft(Tail(s)) ELSE s

RECURSIVE TrimRight(_)
TrimRight(s) ==
  IF s # <<>> /\ IsSpace(s[Len(s)]) THEN TrimRight(SubSeq(s, 1, Len(s) - 1)) ELSE s

Trim(s) == TrimRight(TrimLeft(s))

\* base.replace(/\s+/g, ' '): every run of whitespace becomes one blank
RECURSIVE CollapseSpaces(_)
CollapseSpaces(s) ==
  IF s = <<>> THEN <<>>
  ELSE IF IsSpace(Head(s))
    THEN <<" ">> \o CollapseSpaces(TrimLeft(s))
    ELSE <<Head(s)>> \o CollapseSpaces(Tail(s))

\* context truncation budget passed to truncateForModel
ContextBudget == 12000

\* auto-title length, slice(0, 32)
TitleLen == 32

\* the notice truncateForModel puts in front, stating the original length
TruncNotice(len) == <<"truncated-of", ToString(len), "\n">>

\* variant that keeps the first maxChars characters
truncateForModelHead(str, maxChars) ==
  IF str = <<>> THEN <<>>
  ELSE IF Len(str) <= maxChars THEN str
  ELSE TruncNotice(Len(str)) \o SubSeq(str, 1, maxChars)

truncateForModel(str, maxChars) ==
  IF str = <<>> THEN <<>>
  ELSE IF Len(str) <= maxChars THEN str
  ELSE TruncNotice(Len(str)) \o SubSeq(str, Len(str) - maxChars + 1, Len(str))

\* a canvas object as the server stores and returns it; an id, title or
\* content of <<>> is the empty or absent value
NullServerCanvas == [isNull |-> TRUE, id |-> <<>>, title |-> <<>>, content |-> <<>>]

ServerCanvas(id, title, content) ==
  [isNull |-> FALSE, id |-> id, title |-> title, content |-> content]

\* result.canvas || null, as the handler keeps it
FromResultCanvas(c) ==
  IF c.isNull THEN NullServerCanvas ELSE ServerCanvas(<<>>, c.title, c.content)

\* the n-th value of crypto.randomUUID()
RandomUUID(n) == <<"uuid", ToString(n)>>

\* new Date().toISOString()
ISOTime == <<"iso-time">>

CANVAS_PREFIX == "__CANVAS__"

(***************************************************************************)
(* JSON text of a canvas object.  A JSON text is a sequence of lexemes:    *)
(* the punctuation { } : , and the quote are tokens of their own, and      *)
(* inside a string the quote, the backslash and the newline appear as      *)
(* their two-character escapes.                                            *)
(***************************************************************************)
Quote == "\""

Backslash == "\\"

JsonEscapeNone(tok) == tok
\* the escape JSON.stringify writes for one character of a string
JsonEscape(tok) ==
  IF tok = Quote THEN "\\\""
  ELSE IF tok = Backslash THEN "\\\\"
  ELSE IF tok = "\n" THEN "\\n"
  ELSE tok

\* the character JSON.parse reads for one lexeme inside a string
JsonUnescape(tok) ==
  IF tok = "\\\"" THEN Quote
  ELSE IF tok = "\\\\" THEN Backslash
  ELSE IF tok = "\\n" THEN "\n"
  ELSE tok

\* JSON.stringify of a string
JsonString(s) ==
  <<Quote>> \o [i \in 1..Len(s) |-> JsonEscape(s[i])] \o <<Quote>>

\* JSON.stringify(canvasObj): keys in insertion order id, title, content,
\* updatedAt
JsonStringify(canvasObj) ==
  <<"{">> \o JsonString(<<"id">>) \o <<":">> \o JsonString(canvasObj.id)
    \o <<",">> \o JsonString(<<"title">>) \o <<":">> \o JsonString(canvasObj.title)
    \o <<",">> \o JsonString(<<"content">>) \o <<":">> \o JsonString(canvasObj.content)
    \o <<",">> \o JsonString(<<"updatedAt">>) \o <<":">> \o JsonString(ISOTime)
    \o <<"}">>

\* values of a parsed JSON text: a string, another scalar (number, true,
\* false, null) kept as its lexeme, or undefined for a missing key
JsonStr(s) == [type |-> "string", str |-> s]

JsonScalar(tok) == [type |-> "scalar", str |-> <<tok>>]

JsonUndefined == [type |-> "undefined", str |-> <<>>]

\* a failed parse (JSON.parse throws)
JsonFail == [ok |-> FALSE, val |-> JsonUndefined, next |-> 0]

\* lexemes that are scalars of JSON
JsonScalars == {"null", "true", "false", "0", "7"}

\* a string starting at lexeme i: up to the next quote; a raw newline or a
\* lone backslash inside is a syntax error
JsonParseString(t, i) ==
  IF i > Len(t) \/ t[i] # Quote THEN JsonFail
  ELSE LET closing == {k \in (i + 1)..Len(t) : t[k] = Quote}
       IN  IF closing = {} THEN JsonFail
           ELSE LET j == CHOOSE k \in closing : \A m \in closing : k <= m
                    body == SubSeq(t, i + 1, j - 1)
                IN  IF \E k \in 1..Len(body) : body[k] \in {"\n", Backslash}
                      THEN JsonFail
                      ELSE [ok |-> TRUE,
                            val |-> JsonStr([k \in 1..Len(body) |-> JsonUnescape(body[k])]),
                            next |-> j + 1]

\* a member value starting at lexeme i: a string or a scalar
JsonParseValue(t, i) ==
  IF i > Len(t) THEN JsonFail
  ELSE IF t[i] = Quote THEN JsonParseString(t, i)
  ELSE IF t[i] \in JsonScalars
    THEN [ok |-> TRUE, val |-> JsonScalar(t[i]), next |-> i + 1]
  ELSE JsonFail

\* an object without members
JsonEmptyObject ==
  [id |-> JsonUndefined, title |-> JsonUndefined, content |-> JsonUndefined]

\* the members of an object from lexeme i on, up to the closing brace that
\* ends the text; obj holds the members read so far (a repeated key keeps
\* its last value, keys the server does not read are skipped)
RECURSIVE JsonParseMembers(_, _, _)
JsonParseMembers(t, i, obj) ==
  LET key == JsonParseString(t, i)
  IN  IF ~key.ok THEN JsonFail
      ELSE IF key.next > Len(t) \/ t[key.next] # ":" THEN JsonFail
      ELSE LET v == JsonParseValue(t, key.next + 1)
               k == key.val.str
               obj2 == IF k = <<"id">> THEN [obj EXCEPT !.id = v.val]
                       ELSE IF k = <<"title">> THEN [obj EXCEPT !.title = v.val]
                       ELSE IF k = <<"content">> THEN [obj EXCEPT !.content = v.val]
                       ELSE obj
           IN  IF ~v.ok \/ v.next > Len(t) THEN JsonFail
               ELSE IF t[v.next] = "," THEN JsonParseMembers(t, v.next + 1, obj2)
               ELSE IF t[v.next] = "}" /\ v.next = Len(t)
                 THEN [ok |-> TRUE, val |-> obj2, next |-> v.next + 1]
               ELSE JsonFail

\* JSON.parse(json): ok with the object's members, ok with isObject FALSE
\* for a text that is a lone string or scalar, or not ok
JsonParse(t) ==
  IF t = <<>> THEN [ok |-> FALSE, isObject |-> FALSE, obj |-> JsonEmptyObject]
  ELSE IF t[1] = "{"
    THEN IF t = <<"{", "}">>
           THEN [ok |-> TRUE, isObject |-> TRUE, obj |-> JsonEmptyObject]
           ELSE LET r == JsonParseMembers(t, 2, JsonEmptyObject)
                IN  IF r.ok THEN [ok |-> TRUE, isObject |-> TRUE, obj |-> r.val]
                    ELSE [ok |-> FALSE, isObject |-> FALSE, obj |-> JsonEmptyObject]
  ELSE LET r == JsonParseValue(t, 1)
       IN  [ok |-> r.ok /\ r.next = Len(t) + 1, isObject |-> FALSE,
            obj |-> JsonEmptyObject]

\* String(v) of a member the handler tests for truthiness first: <<>> for a
\* missing, empty, null, false or zero member
JsonTruthyText(v) ==
  IF v.type = "string" THEN v.str
  ELSE IF v.type = "scalar" /\ v.str \notin {<<"null">>, <<"false">>, <<"0">>} THEN v.str
  ELSE <<>>

\* content of a stored message: a text
TextContent(text) == text

\* CANVAS_PREFIX + JSON.stringify(canvasObj)
MarkerContent(canvasObj) == <<CANVAS_PREFIX>> \o JsonStringify(canvasObj)

Row(chat, role, content) == [chat |-> chat, role |-> role, content |-> content]

\* content.startsWith(CANVAS_PREFIX)
StartsWithCanvasPrefix(content) == content # <<>> /\ content[1] = CANVAS_PREFIX

\* safeParseCanvasSystem: the payload object, or null
safeParseCanvasSystem(content) ==
  IF content = <<>> THEN NullServerCanvas
  ELSE IF ~StartsWithCanvasPrefix(content) THEN NullServerCanvas
  ELSE LET json == SubSeq(content, 2, Len(content))
           p == JsonParse(json)
       IN  IF p.ok /\ p.isObject /\ p.obj.content.type = "string"
             THEN ServerCanvas(JsonTruthyText(p.obj.id), JsonTruthyText(p.obj.title),
                               p.obj.content.str)
             ELSE NullServerCanvas

DefaultTitle == <<"new-chat">>

WrittenToCanvas == <<"written-to-canvas">>

\* conversations and their owners, users, uploaded files
Chats == {1, 2}

FileIds == {1, 2}

\* model ids a request may carry: absent (""), registry entries, an id that
\* is no key at all, and a key every JS object inherits
RequestModelIds == {"", "gpt-5", "deepseek-chat", "no-such-model", "constructor"}

\* keys MODEL_MAP answers through Object.prototype
InheritedKeys == {"constructor", "toString", "__proto__"}

Requests ==
  [user : {1},
   chatId : {0, 1, 2},
   content : {<<>>, <<"q">>},
   modelId : RequestModelIds,
   depthMode : BOOLEAN,
   outputTarget : {"chat", "canvas"},
   canvasMode : {"append", "new"},
   fileIds : {{}, {1}}]

NoRequest ==
  [user |-> 0, chatId |-> 0, content |-> <<>>, modelId |-> "", depthMode |-> FALSE,
   outputTarget |-> "chat", canvasMode |-> "append", fileIds |-> {}]

\* MODEL_MAP[modelId] || MODEL_MAP['gpt-5-mini']
LookupConfig(modelId) ==
  IF modelId \in ModelIds THEN [found |-> TRUE, config |-> MODEL_MAP[modelId]]
  ELSE IF modelId \in InheritedKeys THEN [found |-> TRUE, config |-> ForeignConfig]
  ELSE [found |-> TRUE, config |-> MODEL_MAP["gpt-5-mini"]]

\* !!(content && String(content).trim())
HasText(content) == Trim(content) # <<>>

\* rows of uploaded_files the attachment query returns
FileRowIds(fs, r) == {f \in r.fileIds : f \in DOMAIN fs /\ fs[f].user = r.user}

\* status the validation of a request ends with; 0 = accepted
RejectStatus(ss, fs, r) ==
  IF r.chatId = 0 THEN 400
  ELSE IF ~HasText(r.content) /\ r.fileIds = {} THEN 400
  ELSE IF ~(r.chatId \in DOMAIN ss /\ ss[r.chatId].user = r.user) THEN 404
  ELSE IF ~LookupConfig(r.modelId).found THEN 400
  ELSE IF r.fileIds # {} /\ FileRowIds(fs, r) = {} THEN 400
  ELSE IF \E f \in FileRowIds(fs, r) : fs[f].chat # 0 /\ fs[f].chat # r.chatId THEN 400
  ELSE 0

\* a set of file ids as a sequence in id order
RECURSIVE SortedIds(_)
SortedIds(S) ==
  IF S = {} THEN <<>>
  ELSE LET m == CHOOSE x \in S : \A y \in S : x <= y
       IN  <<m>> \o SortedIds(S \ {m})

\* fileNames.join(', ')
RECURSIVE JoinNames(_, _)
JoinNames(fs, ids) ==
  IF ids = <<>> THEN <<>>
  ELSE fs[Head(ids)].name
         \o (IF Len(ids) > 1 THEN <<",">> ELSE <<>>)
         \o JoinNames(fs, Tail(ids))

\* userContentToSave
UserContentToSave(fs, r) ==
  LET names == JoinNames(fs, SortedIds(FileRowIds(fs, r)))
      textInput == IF HasText(r.content) THEN Trim(r.content) ELSE <<>>
      userContent ==
        textInput \o (IF names # <<>> THEN <<"\n", "\n", "attachments:">> \o names ELSE <<>>)
  IN  IF Trim(userContent) # <<>> THEN Trim(userContent)
      ELSE IF names # <<>> THEN <<"attachments:">> \o names ELSE <<>>

\* the title the auto-title step writes
AutoTitle(fs, r) ==
  LET names == JoinNames(fs, SortedIds(FileRowIds(fs, r)))
      textInput == IF HasText(r.content) THEN Trim(r.content) ELSE <<>>
      base == IF textInput # <<>> THEN textInput
              ELSE IF names # <<>> THEN <<"attachments:">> \o names ELSE <<>>
      clean == Trim(CollapseSpaces(base))
      cut == SubSeq(clean, 1, Min(TitleLen, Len(clean)))
  IN  IF cut # <<>> THEN cut ELSE DefaultTitle

\* rows of one conversation in stored order
ChatRows(ms, chat) == SelectSeq(ms, LAMBDA row : row.chat = chat)

\* system rows inserted for the attachments bound by this request
RECURSIVE AttachmentRows(_, _, _)
AttachmentRows(fs, chat, ids) ==
  IF ids = <<>> THEN <<>>
  ELSE (IF fs[Head(ids)].chat # 0 THEN <<>>
        ELSE <<Row(chat, "system",
                   TextContent(<<"attachment:">> \o fs[Head(ids)].name \o <<"\n">>
                     \o truncateForModel(fs[Head(ids)].analysis, ContextBudget)))>>)
         \o AttachmentRows(fs, chat, Tail(ids))

\* variant that takes the oldest canvas marker of the conversation
LatestCanvasOldest(rows, i) ==
  LET markers == SelectSeq(SubSeq(rows, 1, i),
                           LAMBDA row : row.role = "system"
                                          /\ StartsWithCanvasPrefix(row.content))
  IN  IF markers = <<>> THEN NullServerCanvas
      ELSE safeParseCanvasSystem(markers[1].content)

\* the most recent canvas marker of a conversation, parsed; null if none
RECURSIVE LatestCanvas(_, _)
LatestCanvas(rows, i) ==
  IF i < 1 THEN NullServerCanvas
  ELSE IF rows[i].role = "system" /\ StartsWithCanvasPrefix(rows[i].content)
    THEN safeParseCanvasSystem(rows[i].content)
  ELSE LatestCanvas(rows, i - 1)

\* safeParseCanvas of ChatLayout.tsx: the canvas the client shows for a
\* message content, the title defaulted, the id as the payload has it
safeParseCanvas(content) ==
  IF ~StartsWithCanvasPrefix(content) THEN NullServerCanvas
  ELSE LET p == JsonParse(SubSeq(content, 2, Len(content)))
       IN  IF p.ok /\ p.isObject /\ p.obj.content.type = "string"
             THEN ServerCanvas(p.obj.id.str,
                               IF JsonTruthyText(p.obj.title) # <<>>
                                 THEN JsonTruthyText(p.obj.title) ELSE DefaultCanvasTitle,
                               p.obj.content.str)
             ELSE NullServerCanvas

\* extractLatestCanvas of ChatLayout.tsx: from message i backwards, the first
\* marker that parses
RECURSIVE extractLatestCanvas(_, _)
extractLatestCanvas(rows, i) ==
  IF i < 1 THEN NullServerCanvas
  ELSE IF rows[i].role = "system" /\ StartsWithCanvasPrefix(rows[i].content)
            /\ ~safeParseCanvas(rows[i].content).isNull
    THEN safeParseCanvas(rows[i].content)
  ELSE extractLatestCanvas(rows, i - 1)

\* existingCanvas of the handler
ExistingCanvas(ms, r) ==
  IF r.outputTarget = "canvas" /\ r.canvasMode # "new"
    THEN LatestCanvas(ChatRows(ms, r.chatId), Len(ChatRows(ms, r.chatId)))
    ELSE NullServerCanvas

\* canvasTitle of the handler
TurnCanvasTitle(existingCanvas) ==
  IF ~existingCanvas.isNull /\ existingCanvas.title # <<>>
    THEN existingCanvas.title ELSE DefaultCanvasTitle

\* variant without the filter: rows.map({role, content})
StripMarkersNone(rows) == [i \in 1..Len(rows) |-> Msg(rows[i].role, rows[i].content)]

\* rows.filter(not a canvas marker).map({role, content})
RECURSIVE StripMarkers(_)
StripMarkers(rows) ==
  IF rows = <<>> THEN <<>>
  ELSE (IF Head(rows).role = "system" /\ StartsWithCanvasPrefix(Head(rows).content)
          THEN <<>>
          ELSE <<Msg(Head(rows).role, Head(rows).content)>>)
         \o StripMarkers(Tail(rows))

CanvasRules == <<"canvas-mode-rules">>

\* variant of messagesForModel that hands the stored canvas over in full
MessagesForModelUntruncated(ms, r) ==
  LET existingCanvas == ExistingCanvas(ms, r)
      kept == StripMarkers(ChatRows(ms, r.chatId))
  IN  IF r.outputTarget = "canvas"
        THEN kept
               \o (IF ~existingCanvas.isNull /\ existingCanvas.content # <<>>
                     THEN <<Msg("system",
                                <<"current-canvas:", "\n">> \o existingCanvas.content
                                  \o <<"\n", "\n", "continue-without-repeating">>)>>
                     ELSE <<>>)
               \o <<Msg("system", CanvasRules)>>
        ELSE kept

\* messagesForModel of the handler
MessagesForModel(ms, r) ==
  LET existingCanvas == ExistingCanvas(ms, r)
      kept == StripMarkers(ChatRows(ms, r.chatId))
  IN  IF r.outputTarget = "canvas"
        THEN kept
               \o (IF ~existingCanvas.isNull /\ existingCanvas.content # <<>>
                        /\ r.canvasMode # "new"
                     THEN <<Msg("system",
                                <<"current-canvas:", "\n">>
                                  \o truncateForModel(existingCanvas.content, ContextBudget)
                                  \o <<"\n", "\n", "continue-without-repeating">>)>>
                     ELSE <<>>)
               \o <<Msg("system", CanvasRules)>>
        ELSE kept

\* the options the handler passes to callModelWithConfig
TurnOptions(r, canvasTitle) ==
  [depthMode |-> r.depthMode, webSearch |-> TRUE,
   outputTarget |-> r.outputTarget, canvasTitle |-> canvasTitle]

\* what an adapter can return or throw, whatever the network does
AdapterOutcomes(c) ==
  {Thrown} \cup
    (IF c.provider \in {"openai", "deepseek", "gemini"}
       THEN {AdapterParse(c.provider, s, b) : s \in CallStatuses, b \in Bodies(c.provider)}
       ELSE {})

\* chunk of the handler: the canvas content of the result, else its text
CanvasChunk(replyText, canvas) ==
  IF ~canvas.isNull /\ canvas.content # <<>> THEN canvas.content ELSE replyText

\* a merge that drops the earlier content
MergedCanvasReplace(existingCanvas, wantNewCanvas, canvasTitle, replyText, canvas, freshId) ==
  ServerCanvas(
    IF ~existingCanvas.isNull /\ existingCanvas.id # <<>> /\ ~wantNewCanvas
      THEN existingCanvas.id ELSE freshId,
    canvasTitle, Trim(CanvasChunk(replyText, canvas)))

\* variants of the canvas merge: without the separator, with the id of the
\* earlier canvas kept for a new canvas, with the base cut to the context budget
MergedCanvasNoSeparator(existingCanvas, wantNewCanvas, canvasTitle, replyText, canvas, freshId) ==
  LET chunk == IF ~canvas.isNull /\ canvas.content # <<>> THEN canvas.content ELSE replyText
      base == IF ~wantNewCanvas /\ ~existingCanvas.isNull /\ existingCanvas.content # <<>>
                THEN existingCanvas.content ELSE <<>>
  IN  ServerCanvas(
        IF ~existingCanvas.isNull /\ existingCanvas.id # <<>> /\ ~wantNewCanvas
          THEN existingCanvas.id ELSE freshId,
        canvasTitle, Trim(base \o chunk))

MergedCanvasStaleId(existingCanvas, wantNewCanvas, canvasTitle, replyText, canvas, freshId) ==
  LET chunk == IF ~canvas.isNull /\ canvas.content # <<>> THEN canvas.content ELSE replyText
      base == IF ~wantNewCanvas /\ ~existingCanvas.isNull /\ existingCanvas.content # <<>>
                THEN existingCanvas.content ELSE <<>>
      merged == IF base # <<>> THEN Trim(base \o <<"\n", "\n">> \o chunk) ELSE Trim(chunk)
  IN  ServerCanvas(
        IF ~existingCanvas.isNull /\ existingCanvas.id # <<>> /\ ~wantNewCanvas
          THEN existingCanvas.id ELSE RandomUUID(1),
        canvasTitle, merged)

MergedCanvasTruncatedBase(existingCanvas, wantNewCanvas, canvasTitle, replyText, canvas, freshId) ==
  LET chunk == IF ~canvas.isNull /\ canvas.content # <<>> THEN canvas.content ELSE replyText
      base == IF ~wantNewCanvas /\ ~existingCanvas.isNull /\ existingCanvas.content # <<>>
                THEN truncateForModel(existingCanvas.content, ContextBudget) ELSE <<>>
      merged == IF base # <<>> THEN Trim(base \o <<"\n", "\n">> \o chunk) ELSE Trim(chunk)
  IN  ServerCanvas(
        IF ~existingCanvas.isNull /\ existingCanvas.id # <<>> /\ ~wantNewCanvas
          THEN existingCanvas.id ELSE freshId,
        canvasTitle, merged)

\* the canvas object the canvas merge builds from the call result
MergedCanvas(existingCanvas, wantNewCanvas, canvasTitle, replyText, canvas, freshId) ==
  LET chunk == CanvasChunk(replyText, canvas)
      base == IF ~wantNewCanvas /\ ~existingCanvas.isNull /\ existingCanvas.content # <<>>
                THEN existingCanvas.content ELSE <<>>
      merged == IF base # <<>> THEN Trim(base \o <<"\n", "\n">> \o chunk) ELSE Trim(chunk)
  IN  ServerCanvas(
        IF ~existingCanvas.isNull /\ existingCanvas.id # <<>> /\ ~wantNewCanvas
          THEN existingCanvas.id ELSE freshId,
        canvasTitle, merged)

(***************************************************************************)
(* File analysis of server.js: analyzeFileBuffer and POST /api/upload      *)
(***************************************************************************)
MAX_ZIP_FILES == 200

MAX_ZIP_TOTAL_BYTES == 20 * 1024 * 1024

\* the deepest nesting level analyzeFileBuffer still analyses
MaxDepth == 3

\* if (depth > 3): variant that lets one more level through
DepthExceededLate(depth) == depth > MaxDepth + 1

\* if (depth > 3)
DepthExceeded(depth) == depth > MaxDepth

\* String.prototype.toLowerCase on the extensions in use
LowerExt ==
  [x \in {".zip", ".ZIP", ".txt", ".TXT", ".md", ".json", ".log", ".csv", ".pdf",
          ".xlsx", ".jpg", ".jpeg", ".png", ".PNG", ".webp", ".bin"} |->
     CASE x = ".ZIP" -> ".zip"
       [] x = ".TXT" -> ".txt"
       [] x = ".PNG" -> ".png"
       [] OTHER -> x]

\* path.extname(fileName).toLowerCase(): a name is its stem followed by its
\* extension, or the stem alone
ExtName(fileName) ==
  IF Len(fileName) >= 2 /\ fileName[Len(fileName)] \in DOMAIN LowerExt
    THEN LowerExt[fileName[Len(fileName)]]
    ELSE ""

TextExts == {".txt", ".md", ".json", ".log", ".csv"}

ImageExts == {".jpg", ".jpeg", ".png", ".webp"}

\* the blocks analyzeFileBuffer writes
DepthNote(fileName) == <<"\n", "[depth-exceeded-skipped:">> \o fileName \o <<"]", "\n">>

ZipHeader(fileName) == <<"\n", "[zip:">> \o fileName \o <<"]", "\n">>

FilesLimitNote == <<"\n", "[zip-files-over", ToString(MAX_ZIP_FILES), "stopped]", "\n">>

BytesLimitNote ==
  <<"\n", "[zip-bytes-over", ToString(MAX_ZIP_TOTAL_BYTES), "stopped]", "\n">>

EntryHeader(path) == <<"\n", "---", "\n", "[">> \o path \o <<"]", "\n">>

FileBlock(label, fileName, text) ==
  <<"\n", label>> \o fileName \o <<"]", "\n">> \o text \o <<"\n">>

VisionFailed == <<"[image-failed:", "error-message", "]">>

\* an entry of an archive, or an uploaded file: what unzipper reports of it
\* (type, path), the length of its decompressed buffer, the text its decoder
\* yields, the entries unzipper finds in it, whether its decoder (unzipper,
\* pdf-parse, xlsx, the vision call) succeeds
FileEntry(path, size, text) ==
  [type |-> "File", path |-> path, size |-> size, text |-> text, files |-> <<>>,
   ok |-> TRUE]

FailingEntry(path, size) ==
  [type |-> "File", path |-> path, size |-> size, text |-> <<>>, files |-> <<>>,
   ok |-> FALSE]

DirectoryEntry(path) ==
  [type |-> "Directory", path |-> path, size |-> 0, text |-> <<>>, files |-> <<>>,
   ok |-> TRUE]

ZipEntry(path, size, entries) ==
  [type |-> "File", path |-> path, size |-> size, text |-> <<>>, files |-> entries,
   ok |-> TRUE]

\* zipState, and the steps taken so far: each with the entry it concerns, the
\* depth of that entry and the counters after the step
NewZipState == [files |-> 0, bytes |-> 0, log |-> <<>>]

Step(zipState, ev, path, depth) ==
  [zipState EXCEPT !.log =
     Append(@, [ev |-> ev, path |-> path, depth |-> depth,
                files |-> zipState.files, bytes |-> zipState.bytes])]

AnalysisReturned(out, zipState) ==
  [thrown |-> FALSE, stopped |-> FALSE, out |-> out, zipState |-> zipState]

AnalysisThrown(zipState) ==
  [thrown |-> TRUE, stopped |-> FALSE, out |-> <<>>, zipState |-> zipState]

\* the loop over directory.files left by break
LoopStopped(out, zipState) ==
  [thrown |-> FALSE, stopped |-> TRUE, out |-> out, zipState |-> zipState]

\* variant of the image branch without its try/catch
ImageBlockUncaught(file, zipState) ==
  IF file.ok
    THEN AnalysisReturned(FileBlock("[image-file:", file.path, file.text), zipState)
    ELSE AnalysisThrown(zipState)

\* the image branch: the description callVisionOpenAI returns, or the
\* failure notice when it throws
ImageBlock(file, zipState) ==
  AnalysisReturned(FileBlock("[image-file:", file.path,
                             IF file.ok THEN file.text ELSE VisionFailed), zipState)

\* variant of the loop body that writes no header before an entry's text
ZipIterationNoHeader(f, depth, acc) ==
  IF f.type # "File" THEN acc
  ELSE AnalysisReturned(acc.out \o FileBlock("[text-file:", f.path, f.text),
                        [acc.zipState EXCEPT !.files = @ + 1, !.bytes = @ + f.size])

RECURSIVE analyzeFileBuffer(_, _, _)
RECURSIVE ZipLoop(_, _, _, _, _)

\* variant of the loop body in which the counts of a nested archive do not
\* reach the enclosing archive
ZipIterationOwnCounters(f, depth, acc) ==
  IF f.type # "File" THEN acc
  ELSE
    LET counted ==
          Step([acc.zipState EXCEPT !.files = @ + 1], "count", f.path, depth + 1)
    IN
    IF counted.files > MAX_ZIP_FILES
      THEN LoopStopped(acc.out \o FilesLimitNote, counted)
      ELSE
        LET buffered ==
              Step([counted EXCEPT !.bytes = @ + f.size], "buffer", f.path, depth + 1)
        IN
        IF buffered.bytes > MAX_ZIP_TOTAL_BYTES
          THEN LoopStopped(acc.out \o BytesLimitNote, buffered)
          ELSE
            LET child == analyzeFileBuffer(f, depth + 1, buffered) IN
            IF child.thrown THEN child
            ELSE AnalysisReturned(acc.out \o EntryHeader(f.path) \o child.out,
                                  [child.zipState EXCEPT !.files = buffered.files,
                                                         !.bytes = buffered.bytes])

\* one iteration of the loop over directory.files, for entry f of an archive
\* at the given depth; acc holds the text and the counters so far
ZipIteration(f, depth, acc) ==
  IF f.type # "File" THEN acc
  ELSE
    LET counted ==
          Step([acc.zipState EXCEPT !.files = @ + 1], "count", f.path, depth + 1)
    IN
    IF counted.files > MAX_ZIP_FILES
      THEN LoopStopped(acc.out \o FilesLimitNote, counted)
      ELSE
        LET buffered ==
              Step([counted EXCEPT !.bytes = @ + f.size], "buffer", f.path, depth + 1)
        IN
        IF buffered.bytes > MAX_ZIP_TOTAL_BYTES
          THEN LoopStopped(acc.out \o BytesLimitNote, buffered)
          ELSE
            LET child == analyzeFileBuffer(f, depth + 1, buffered) IN
            IF child.thrown THEN child
            ELSE AnalysisReturned(acc.out \o EntryHeader(f.path) \o child.out,
                                  child.zipState)

\* the iterations for entries lo..hi in order, none after a break or an
\* exception; the range is halved to keep the evaluation shallow
ZipLoop(entries, lo, hi, depth, acc) ==
  IF lo > hi \/ acc.thrown \/ acc.stopped THEN acc
  ELSE IF lo = hi THEN ZipIteration(entries[lo], depth, acc)
  ELSE LET mid == (lo + hi) \div 2
           left == ZipLoop(entries, lo, mid, depth, acc)
       IN  ZipLoop(entries, mid + 1, hi, depth, left)

analyzeFileBuffer(file, depth, zipState) ==
  IF DepthExceeded(depth)
    THEN AnalysisReturned(DepthNote(file.path), Step(zipState, "skip", file.path, depth))
  ELSE
    LET ext == ExtName(file.path)
        entered == Step(zipState, "decode", file.path, depth)
    IN
    IF ext = ".zip" THEN
      IF file.ok
        THEN LET loop == ZipLoop(file.files, 1, Len(file.files), depth,
                                 AnalysisReturned(ZipHeader(file.path), entered))
             IN  [loop EXCEPT !.stopped = FALSE]
        ELSE AnalysisThrown(entered)
    ELSE IF ext \in TextExts THEN
      AnalysisReturned(FileBlock("[text-file:", file.path, file.text), entered)
    ELSE IF ext = ".pdf" THEN
      IF file.ok THEN AnalysisReturned(FileBlock("[pdf-file:", file.path, file.text), entered)
      ELSE AnalysisThrown(entered)
    ELSE IF ext = ".xlsx" THEN
      IF file.ok THEN AnalysisReturned(FileBlock("[excel-file:", file.path, file.text), entered)
      ELSE AnalysisThrown(entered)
    ELSE IF ext \in ImageExts THEN ImageBlock(file, entered)
    ELSE AnalysisReturned(FileBlock("[file:", file.path, file.text), entered)

(***************************************************************************)
(* Inputs of the helper functions when they are applied on their own       *)
(***************************************************************************)
MaxStrLen == 3

MaxBudget == 3

MaxContentLen == 2

MaxNest == 5

MiB == 1024 * 1024

\* all sequences over alphabet of length at most n
RECURSIVE SeqsUpTo(_, _)
SeqsUpTo(alphabet, n) ==
  IF n = 0 THEN {<<>>}
  ELSE LET shorter == SeqsUpTo(alphabet, n - 1)
       IN  shorter \cup {Append(s, a) : s \in shorter, a \in alphabet}

\* characters a canvas text may hold, the ones JSON treats specially included
ContentChars == {Quote, Backslash, "\n", "}", ",", "x", CANVAS_PREFIX, "null"}

\* canvas objects the handler can emit: the id is a stored id or a fresh
\* uuid, the title a stored title or the default, the content any text
EmittedCanvases ==
  {ServerCanvas(id, title, content) :
     id \in {RandomUUID(1), <<"7">>, <<Quote, "i">>},
     title \in {<<"canvas">>, <<"t", Backslash>>, <<"\n", "t">>},
     content \in SeqsUpTo(ContentChars, MaxContentLen)}

\* a payload with one member
OneMember(key, valueLexemes) ==
  <<"{">> \o JsonString(<<key>>) \o <<":">> \o valueLexemes \o <<"}">>

\* stored texts that no handler emitted, each with whether its payload is
\* valid JSON holding a string content
StoredTexts ==
  { [text |-> <<"hello">>, wellFormed |-> FALSE],
    [text |-> <<>>, wellFormed |-> FALSE],
    [text |-> JsonStringify(ServerCanvas(<<"7">>, <<"t">>, <<"x">>)), wellFormed |-> TRUE],
    [text |-> <<"x", CANVAS_PREFIX>> \o OneMember("content", JsonString(<<"x">>)),
     wellFormed |-> TRUE],
    [text |-> <<CANVAS_PREFIX>>, wellFormed |-> FALSE],
    [text |-> <<CANVAS_PREFIX, "null">>, wellFormed |-> FALSE],
    [text |-> <<CANVAS_PREFIX, "7">>, wellFormed |-> FALSE],
    [text |-> <<CANVAS_PREFIX>> \o JsonString(<<"x">>), wellFormed |-> FALSE],
    [text |-> <<CANVAS_PREFIX, "{", "}">>, wellFormed |-> FALSE],
    [text |-> <<CANVAS_PREFIX>> \o OneMember("content", <<"7">>), wellFormed |-> FALSE],
    [text |-> <<CANVAS_PREFIX>> \o OneMember("content", <<"null">>), wellFormed |-> FALSE],
    [text |-> <<CANVAS_PREFIX>> \o OneMember("id", JsonString(<<"a">>)),
     wellFormed |-> FALSE],
    [text |-> <<CANVAS_PREFIX, "{">> \o JsonString(<<"content">>) \o <<":">>
                \o JsonString(<<"x">>), wellFormed |-> FALSE],
    [text |-> <<CANVAS_PREFIX, "{">> \o JsonString(<<"content">>) \o <<":", Quote, "x", "}">>,
     wellFormed |-> FALSE],
    [text |-> <<CANVAS_PREFIX>> \o OneMember("content", JsonString(<<"x">>)) \o <<"x">>,
     wellFormed |-> FALSE],
    [text |-> <<CANVAS_PREFIX>> \o OneMember("content", <<Quote, "x", "\n", Quote>>),
     wellFormed |-> FALSE],
    [text |-> <<CANVAS_PREFIX>> \o OneMember("content", <<Quote, Backslash, Quote>>),
     wellFormed |-> FALSE],
    [text |-> <<CANVAS_PREFIX, "{">> \o JsonString(<<"content">>) \o <<":">>
                \o JsonString(<<"x">>) \o <<",">> \o JsonString(<<"content">>)
                \o <<":", "7", "}">>, wellFormed |-> FALSE],
    [text |-> <<CANVAS_PREFIX, "{">> \o JsonString(<<"content">>) \o <<":">>
                \o JsonString(<<"x">>) \o <<",", "}">>, wellFormed |-> FALSE],
    [text |-> <<CANVAS_PREFIX>> \o OneMember("content", JsonString(<<"x">>)),
     wellFormed |-> TRUE],
    [text |-> <<CANVAS_PREFIX>> \o OneMember("content", JsonString(<<>>)),
     wellFormed |-> TRUE],
    [text |-> <<CANVAS_PREFIX, "{">> \o JsonString(<<"extra">>) \o <<":", "true", ",">>
                \o JsonString(<<"content">>) \o <<":">> \o JsonString(<<"y", Quote>>)
                \o <<",">> \o JsonString(<<"id">>) \o <<":", "7", "}">>,
     wellFormed |-> TRUE] }

\* n text entries of one byte each
ManyEntries(stem, n) ==
  [i \in 1..n |-> FileEntry(<<stem, ToString(i), ".txt">>, 1, <<stem, ToString(i)>>)]

\* an archive nested k levels deep around a text file, with a text file next
\* to the nested archive at every level and a directory in between
RECURSIVE Nest(_)
Nest(k) ==
  IF k = 0 THEN FileEntry(<<"leaf", ".txt">>, 4, <<"leaf-text">>)
  ELSE ZipEntry(<<"z", ToString(k), ".zip">>, 64,
                <<Nest(k - 1), DirectoryEntry(<<"d", ToString(k)>>),
                  FileEntry(<<"s", ToString(k), ".txt">>, 3, <<"sib", ToString(k)>>)>>)

\* uploaded files: nestings of every depth, archives around the entry quota
\* and the byte quota (crossed at top level and inside a nested archive),
\* single files of every kind, readable and not
UploadedFiles ==
  {Nest(k) : k \in 0..MaxNest}
  \cup {ZipEntry(<<"docs", ".zip">>, 64,
                 <<DirectoryEntry(<<"dir">>),
                   FileEntry(<<"a", ".txt">>, 2, <<"text-a">>),
                   FileEntry(<<"b", ".md">>, 2, <<"text-b">>),
                   ZipEntry(<<"in", ".zip">>, 16,
                            <<FileEntry(<<"d", ".csv">>, 2, <<"text-d">>),
                              FileEntry(<<"p", ".png">>, 2, <<"seen-p">>)>>),
                   FileEntry(<<"c", ".txt">>, 2, <<"text-c">>)>>)}
  \cup {ZipEntry(<<"flat", ".zip">>, 64, ManyEntries("f", n)) :
          n \in {0, 3, MAX_ZIP_FILES - 1, MAX_ZIP_FILES, MAX_ZIP_FILES + 1,
                 MAX_ZIP_FILES + 2}}
  \cup {ZipEntry(<<"outer", ".zip">>, 64,
                 ManyEntries("a", MAX_ZIP_FILES - 50)
                   \o <<ZipEntry(<<"inner", ".ZIP">>, 64, ManyEntries("b", 60))>>
                   \o ManyEntries("c", 2))}
  \cup {ZipEntry(<<"bytes", ".zip">>, 64,
                 <<FileEntry(<<"b1", ".txt">>, 10 * MiB, <<"b1">>),
                   FileEntry(<<"b2", ".txt">>, 10 * MiB - last, <<"b2">>),
                   FileEntry(<<"b3", ".txt">>, 1, <<"b3">>),
                   FileEntry(<<"b4", ".txt">>, 1, <<"b4">>)>>) : last \in {0, 1, 2}}
  \cup {ZipEntry(<<"bomb", ".zip">>, 64,
                 <<FileEntry(<<"small", ".txt">>, 1, <<"small">>),
                   FileEntry(<<"huge", ".bin">>, 1024 * MiB, <<"huge">>),
                   FileEntry(<<"after", ".txt">>, 1, <<"after">>)>>)}
  \cup {ZipEntry(<<"outerb", ".zip">>, 64,
                 <<FileEntry(<<"o1", ".txt">>, 12 * MiB, <<"o1">>),
                   ZipEntry(<<"innerb", ".zip">>, MiB,
                            <<FileEntry(<<"i1", ".txt">>, 8 * MiB, <<"i1">>),
                              FileEntry(<<"i2", ".txt">>, 1, <<"i2">>)>>),
                   FileEntry(<<"o2", ".txt">>, 5, <<"o2">>),
                   FileEntry(<<"o3", ".txt">>, 1, <<"o3">>)>>)}
  \cup {ZipEntry(<<"deepb", ".zip">>, 64,
                 <<FileEntry(<<"t1", ".txt">>, 1, <<"t1">>),
                   ZipEntry(<<"midb", ".zip">>, MiB,
                            <<FileEntry(<<"m1", ".txt">>, 1, <<"m1">>),
                              ZipEntry(<<"lowb", ".zip">>, MiB,
                                       <<FileEntry(<<"l1", ".txt">>, 1, <<"l1">>),
                                         FileEntry(<<"l2", ".txt">>, 19 * MiB, <<"l2">>),
                                         FileEntry(<<"l3", ".txt">>, 1, <<"l3">>)>>),
                              FileEntry(<<"m2", ".txt">>, 1, <<"m2">>),
                              FileEntry(<<"m3", ".txt">>, 1, <<"m3">>)>>),
                   DirectoryEntry(<<"tdir">>),
                   FileEntry(<<"t2", ".txt">>, 0, <<"t2">>),
                   FileEntry(<<"t3", ".txt">>, 1, <<"t3">>)>>)}
  \cup {ZipEntry(<<"deepf", ".zip">>, 64,
                 ManyEntries("g", MAX_ZIP_FILES - 3)
                   \o <<ZipEntry(<<"midf", ".zip">>, 16,
                                 <<ZipEntry(<<"lowf", ".zip">>, 8,
                                            <<FileEntry(<<"x1", ".txt">>, 1, <<"x1">>),
                                              FileEntry(<<"x2", ".txt">>, 1, <<"x2">>),
                                              FileEntry(<<"x3", ".txt">>, 1, <<"x3">>)>>),
                                   FileEntry(<<"y1", ".txt">>, 1, <<"y1">>),
                                   FileEntry(<<"y2", ".txt">>, 1, <<"y2">>)>>),
                         FileEntry(<<"w1", ".txt">>, 1, <<"w1">>),
                         FileEntry(<<"w2", ".txt">>, 1, <<"w2">>)>>)}
  \cup {FileEntry(<<"plain", ext>>, 5, <<"decoded", ext>>) :
          ext \in {".txt", ".TXT", ".md", ".json", ".log", ".csv", ".pdf", ".xlsx",
                   ".jpg", ".jpeg", ".png", ".PNG", ".webp", ".bin"}}
  \cup {FileEntry(<<"README">>, 5, <<"readme">>)}
  \cup {FailingEntry(<<"broken", ext>>, 5) : ext \in {".zip", ".pdf", ".xlsx", ".png"}}
  \cup {ZipEntry(<<"mixed", ".zip">>, 64,
                 <<FileEntry(<<"m1", ".txt">>, 2, <<"m1">>),
                   FailingEntry(<<"m2", ext>>, 2),
                   FileEntry(<<"m3", ".md">>, 2, <<"m3">>)>>) :
          ext \in {".zip", ".pdf", ".xlsx", ".png"}}

NoFile == FileEntry(<<>>, 0, <<>>)

\* the input of a helper function: of truncateForModel (str, maxChars), of
\* the marker emit (canvas), of safeParseCanvasSystem (text, with whether its
\* payload is well formed), of the upload handler (file, if one was sent)
Arg(kind, str, maxChars, canvas, text, wellFormed, hasFile, file) ==
  [kind |-> kind, str |-> str, maxChars |-> maxChars, canvas |-> canvas,
   text |-> text, wellFormed |-> wellFormed, hasFile |-> hasFile, file |-> file]

NoArg == Arg("none", <<>>, 0, NullServerCanvas, <<>>, FALSE, FALSE, NoFile)

HelperInputs ==
  {Arg("truncate", str, maxChars, NullServerCanvas, <<>>, FALSE, FALSE, NoFile) :
     str \in SeqsUpTo({"a", "b"}, MaxStrLen), maxChars \in 0..MaxBudget}
  \cup {Arg("truncate",
            <<"head">> \o [i \in 1..ContextBudget |-> "x"] \o <<"tail">>,
            ContextBudget, NullServerCanvas, <<>>, FALSE, FALSE, NoFile)}
  \cup {Arg("canvas", <<>>, 0, c, <<>>, TRUE, FALSE, NoFile) : c \in EmittedCanvases}
  \cup {Arg("text", <<>>, 0, NullServerCanvas, t.text, t.wellFormed, FALSE, NoFile) :
          t \in StoredTexts}
  \cup {Arg("upload", <<>>, 0, NullServerCanvas, <<>>, FALSE, TRUE, f) :
          f \in UploadedFiles}
  \cup {Arg("upload", <<>>, 0, NullServerCanvas, <<>>, FALSE, FALSE, NoFile)}

\* what a helper function returned: a text, a canvas, or the answer of the
\* upload handler with the outcome of the analysis
NoRet ==
  [text |-> <<>>, canvas |-> NullServerCanvas, status |-> 0,
   analysis |-> AnalysisReturned(<<>>, NewZipState)]

(***************************************************************************)
(* Uploads handled concurrently: each call of analyzeFileBuffer as a        *)
(* process that yields at its awaits                                        *)
(***************************************************************************)
Uploaders == {1, 2}

MaxUploads == 3

\* files uploaded while another upload is being analysed: the archive with a
\* nested archive, a nesting of two, an archive that crosses the byte quota
\* inside a nested archive, an archive with an unreadable PDF
ConcurrentFiles ==
  {f \in UploadedFiles :
     \/ f.path \in {<<"docs", ".zip">>, <<"z", "2", ".zip">>, <<"outerb", ".zip">>}
     \/ f.path = <<"mixed", ".zip">> /\ f.files[2].path = <<"m2", ".pdf">>}

\* variant in which every call uses one and the same counters object
SharedZipStateRef(p) == 1

\* zipState = { files: 0, bytes: 0 }: the default value is evaluated at each
\* top-level call, which gives the call of uploader p an object of its own
NewZipStateRef(p) == p

ZeroCounters == [files |-> 0, bytes |-> 0]

\* a call of the upload handler: where it is, the file, the counters object
\* it holds, the loops over directory.files it is in (innermost first, each
\* with the index of its current entry, the depth of its archive and whether
\* it is about to count the entry or awaits the entry's buffer), its text
NoUploadCall ==
  [pc |-> "idle", file |-> NoFile, zipState |-> 0, frames |-> <<>>, out |-> <<>>]

NoUploads ==
  [calls |-> [p \in Uploaders |-> NoUploadCall],
   zipStates |-> [p \in Uploaders |-> ZeroCounters],
   started |-> 0]

LoopFrame(entries, i, depth, stage) ==
  [entries |-> entries, i |-> i, depth |-> depth, stage |-> stage]

\* analyzeFileBuffer(file, ..., depth) entered by a call, up to the first
\* await of its loop: the depth note, the block of a file that is no archive,
\* an exception, or the archive header and a new loop
EnterFile(call, file, depth) ==
  IF DepthExceeded(depth) \/ ExtName(file.path) # ".zip"
    THEN LET r == analyzeFileBuffer(file, depth, NewZipState)
         IN  IF r.thrown THEN [call EXCEPT !.pc = "failed"]
             ELSE [call EXCEPT !.out = @ \o r.out]
    ELSE IF file.ok
      THEN [call EXCEPT !.out = @ \o ZipHeader(file.path),
                        !.frames = <<LoopFrame(file.files, 1, depth, "count")>> \o @]
      ELSE [call EXCEPT !.pc = "failed"]

(***************************************************************************)
(* Turns handled concurrently on one conversation                          *)
(***************************************************************************)
\* requests in progress at the same time
Handlers == {1, 2}

\* turns accepted in one run
MaxRaceTurns == 3

\* a call of the message handler: where it is, its request, the canvas it
\* read, the title it derived, the turn it serves, the assistant text it is
\* about to store
NoHandlerCall ==
  [pc |-> "idle",
   req |-> NoRequest,
   existingCanvas |-> NullServerCanvas, canvasTitle |-> <<>>, turn |-> 0,
   replyText |-> <<>>]

\* the calls, and for every accepted turn in order of arrival: the chunk its
\* model call produced, whether its marker is stored, whether it is done, and
\* whether another turn was in progress during it
NoHandlers ==
  [calls |-> [h \in Handlers |-> NoHandlerCall], turns |-> <<>>]

NoTurnRecord ==
  [chunk |-> <<>>, marked |-> FALSE, done |-> FALSE, overlapped |-> FALSE]

(***************************************************************************)
(* The client: ChatLayout.tsx showing one conversation                     *)
(***************************************************************************)
\* messages sent in one run
MaxClientSends == 2

\* the entry of MODELS the user has selected
ClientModelId == "deepseek-chat"

\* the words that start a new canvas when a message begins with them
NewCanvasCommands == {"new-canvas", "new-canvas-again"}

\* texts the user types: plain, and a command followed by text
ClientTexts ==
  {<<"q">>, <<"new-canvas", " ", "q">>}

\* /^(...)([:：\s]|$)/.exec(m2)
CommandHit(m2) ==
  /\ m2 # <<>>
  /\ m2[1] \in NewCanvasCommands
  /\ Len(m2) = 1 \/ m2[2] \in {":", " ", "\n"}

\* m2.replace(/^(...)([:：\s])?/, '').trim(), or m2 if nothing is left
StripCommand(m2) ==
  LET rest == Trim(IF Len(m2) >= 2 /\ m2[2] \in {":", " ", "\n"}
                     THEN SubSeq(m2, 3, Len(m2)) ELSE Tail(m2))
  IN  IF rest = <<>> THEN m2 ELSE rest

\* a canvas mode that forgets the button's intent
CanvasModeOfCommandOnly(outTarget, newCanvasNext, text) ==
  IF outTarget # "canvas" THEN ""
  ELSE IF CommandHit(TrimLeft(Trim(text))) THEN "new" ELSE "append"

\* canvasMode of handleSend; "" is undefined, which JSON.stringify leaves out
CanvasModeOf(outTarget, newCanvasNext, text) ==
  IF outTarget # "canvas" THEN ""
  ELSE IF CommandHit(TrimLeft(Trim(text))) THEN "new"
  ELSE IF newCanvasNext THEN "new" ELSE "append"

\* the text handleSend posts
PostedText(outTarget, rawText) ==
  IF outTarget = "canvas" /\ CommandHit(TrimLeft(Trim(rawText)))
    THEN StripCommand(TrimLeft(Trim(rawText)))
    ELSE rawText

\* the body of the POST handleSend makes for the text in the textarea, with
\* the user of the token
ClientRequest(c, input) ==
  [user |-> 1, chatId |-> 1,
   content |-> PostedText(c.outputMode, Trim(input)),
   modelId |-> ClientModelId, depthMode |-> FALSE,
   outputTarget |-> c.outputMode,
   canvasMode |-> CanvasModeOf(c.outputMode, c.newCanvasNext, Trim(input)),
   fileIds |-> {}]

\* the component after mount: its state (sending, outputMode, newCanvasNext,
\* canvas; the textarea is empty between two sends), the number of messages
\* sent, and the calls of handleSend awaiting their response in the order of
\* their POSTs.  Kept with every call: whether its text began with a command,
\* how many sends were in flight when it was posted, and whether the
\* new-canvas button had been clicked since the last successful send and
\* since the last canvas-mode POST
NoClient ==
  [sending |-> FALSE, outputMode |-> "chat", newCanvasNext |-> FALSE,
   canvas |-> NullServerCanvas, calls |-> <<>>, sent |-> 0,
   armedSinceOk |-> FALSE, armedSincePost |-> FALSE]

\* the canvas handleSend shows for the canvas of a response
ShownCanvas(c) ==
  ServerCanvas(c.id, IF c.title # <<>> THEN c.title ELSE DefaultCanvasTitle, c.content)

\* handleSend with a text to send, from its entry to the await of the POST
HandleSend(c, input) ==
  LET r == ClientRequest(c, input)
  IN  [c EXCEPT
         !.sending = TRUE,
         !.sent = @ + 1,
         !.calls = Append(@, [req |-> r,
                              command |-> CommandHit(TrimLeft(Trim(input))),
                              inFlight |-> Len(c.calls),
                              armedSinceOk |-> c.armedSinceOk,
                              armedSincePost |-> c.armedSincePost]),
         !.armedSincePost = IF r.outputTarget = "canvas" THEN FALSE ELSE @]

VARIABLES
  fpc,        \* position in fetchWithRetry: idle, attempt, sleep, returned, thrown
  cfg,        \* the retry policy of the invocation
  attempt,    \* loop variable
  lastErr,    \* last caught error
  net,        \* what the network did at each fetch so far, in order
  delays,     \* delays slept so far, in order
  aborted,    \* attempts whose AbortController was aborted
  fres,       \* status of the response returned, or 0
  cpc,        \* position in callModelWithConfig: idle, fetching, done
  config,     \* its config argument
  messages,   \* its messages argument
  options,    \* its options argument
  env,        \* process.env during the call
  wire,       \* the request body the adapter built, or NoWire
  resBody,    \* the body read from the response
  raw,        \* what the adapter returned or threw
  callRes,    \* the value the call returned
  msgs,       \* table messages, in stored order
  sessions,   \* table chat_sessions: owner and title of each conversation
  files,      \* table uploaded_files
  uuid,       \* number of ids crypto.randomUUID() has produced
  tpc,        \* position of the message handler: idle, calling, done, rejected
  req,        \* the request being handled
  called,     \* provider calls made for the request: config, options, messages
  len0,       \* number of stored messages when the request arrived
  result,     \* what callModelWithConfig returned to the handler
  res,        \* the HTTP response of the request
  fn,         \* the helper function applied to arg, or "none"
  arg,        \* the input of a helper function
  ret,        \* what the helper function returned
  uploads,    \* calls of the upload handler in progress and their counters objects
  handlers,   \* calls of the message handler in progress on one conversation
  client      \* state of the ChatLayout component showing conversation 1

fetchVars == <<fpc, cfg, attempt, lastErr, net, delays, aborted, fres>>

callVars == <<cpc, config, messages, options, env, wire, resBody, raw, callRes>>

dbVars == <<msgs, sessions, files, uuid>>

turnVars == <<tpc, req, called, len0, result, res>>

fnVars == <<fn, arg, ret>>

raceVars == <<uploads, handlers, client>>

vars == <<fetchVars, callVars, dbVars, turnVars, fnVars, raceVars>>

\* statuses and errors the network may produce in the current context
NetStatuses == IF cpc = "idle" THEN Statuses ELSE CallStatuses

NetErrs == IF cpc = "idle" THEN TransportErrs ELSE CallTransportErrs


\* entry of fetchWithRetry up to the first loop test
FetchEnter(c) ==
  /\ cfg' = c
  /\ attempt' = 0
  /\ lastErr' = NoErr
  /\ net' = <<>>
  /\ delays' = <<>>
  /\ aborted' = {}
  /\ fres' = 0
  /\ UNCHANGED <<dbVars, turnVars, fnVars, raceVars>>
  /\ fpc' = IF 0 <= c.retries THEN "attempt" ELSE "thrown"

CatchErrOffByOne(err) ==
  /\ lastErr' = err
  /\ fres' = fres
  /\ IF attempt <= cfg.retries /\ isRetryableError(err)
       THEN /\ delays' = Append(delays, Backoff(cfg, attempt))
            /\ fpc' = "sleep"
       ELSE /\ delays' = delays
            /\ fpc' = "thrown"

\* the catch block, entered with the error the fetch rejected with
CatchErr(err) ==
  /\ lastErr' = err
  /\ fres' = fres
  /\ IF attempt < cfg.retries /\ isRetryableError(err)
       THEN /\ delays' = Append(delays, Backoff(cfg, attempt))
            /\ fpc' = "sleep"
       ELSE /\ delays' = delays
            /\ fpc' = "thrown"

\* fetch resolves with a response of the given status
AttemptResponse ==
  /\ fpc = "attempt"
  /\ \E status \in NetStatuses :
       /\ net' = Append(net, [kind |-> "status", status |-> status, err |-> NoErr])
       /\ IF isRetryableStatus(status) /\ attempt < cfg.retries
            THEN /\ delays' = Append(delays, Backoff(cfg, attempt))
                 /\ fpc' = "sleep"
                 /\ fres' = fres
            ELSE /\ delays' = delays
                 /\ fpc' = "returned"
                 /\ fres' = status
  /\ UNCHANGED <<cfg, attempt, lastErr, aborted>>
  /\ UNCHANGED <<callVars, dbVars, turnVars, fnVars, raceVars>>

\* the timeoutMs timer fires first: controller.abort(), fetch rejects
AttemptTimeout ==
  /\ fpc = "attempt"
  /\ aborted' = aborted \cup {attempt}
  /\ net' = Append(net, [kind |-> "timeout", status |-> 0, err |-> AbortErr])
  /\ CatchErr(AbortErr)
  /\ UNCHANGED <<cfg, attempt>>
  /\ UNCHANGED <<callVars, dbVars, turnVars, fnVars, raceVars>>

\* fetch rejects with a transport error
AttemptError ==
  /\ fpc = "attempt"
  /\ \E err \in NetErrs :
       /\ net' = Append(net, [kind |-> "error", status |-> 0, err |-> err])
       /\ CatchErr(err)
  /\ UNCHANGED <<cfg, attempt, aborted>>
  /\ UNCHANGED <<callVars, dbVars, turnVars, fnVars, raceVars>>

\* sleep(delay) elapsed: continue, attempt++, loop test
SleepDone ==
  /\ fpc = "sleep"
  /\ attempt' = attempt + 1
  /\ fpc' = IF attempt + 1 <= cfg.retries THEN "attempt" ELSE "thrown"
  /\ UNCHANGED <<cfg, lastErr, net, delays, aborted, fres>>
  /\ UNCHANGED <<callVars, dbVars, turnVars, fnVars, raceVars>>

FetchStep == AttemptResponse \/ AttemptTimeout \/ AttemptError \/ SleepDone

(***************************************************************************)
(* callModelWithConfig                                                     *)
(***************************************************************************)

\* callModelWithConfig from its entry to the adapter's first await: the
\* adapter throws at once (caught by the router) or sends its request
\* through fetchWithRetry
CallStart ==
  /\ cpc = "idle"
  /\ \E c \in Configs, m \in CallMessages, o \in CallOptions, e \in Envs :
       /\ config' = c
       /\ messages' = m
       /\ options' = o
       /\ env' = e
       /\ resBody' = InvalidBody
       /\ IF ThrowsBeforeRequest(c, e)
            THEN /\ wire' = NoWire
                 /\ raw' = Thrown
                 /\ callRes' = RouterResult(o, Thrown)
                 /\ cpc' = "done"
                 /\ UNCHANGED fetchVars
            ELSE /\ wire' = WireRequest(c, m, o, e)
                 /\ raw' = NoResult
                 /\ callRes' = NoResult
                 /\ cpc' = "fetching"
                 /\ FetchEnter(AdapterCfg)
  /\ UNCHANGED <<dbVars, turnVars, fnVars, raceVars>>

\* fetchWithRetry returned a response: res.json(), res.ok test, parsing,
\* and the router's normalisation or catch
AdapterResponse ==
  /\ cpc = "fetching"
  /\ fpc = "returned"
  /\ \E body \in Bodies(config.provider) :
       /\ resBody' = body
       /\ raw' = AdapterParse(config.provider, fres, body)
       /\ callRes' = RouterResult(options, AdapterParse(config.provider, fres, body))
  /\ cpc' = "done"
  /\ UNCHANGED <<config, messages, options, env, wire>>
  /\ UNCHANGED <<fetchVars, dbVars, turnVars, fnVars, raceVars>>

\* fetchWithRetry threw: the adapter propagates, the router catches
AdapterFetchThrew ==
  /\ cpc = "fetching"
  /\ fpc = "thrown"
  /\ raw' = Thrown
  /\ callRes' = RouterResult(options, Thrown)
  /\ cpc' = "done"
  /\ UNCHANGED <<config, messages, options, env, wire, resBody>>
  /\ UNCHANGED <<fetchVars, dbVars, turnVars, fnVars, raceVars>>

\* the caller has taken the result; nothing of the call is kept
CallReturn ==
  /\ cpc = "done"
  /\ cpc' = "idle"
  /\ config' = ForeignConfig
  /\ messages' = <<>>
  /\ options' = NoOptions
  /\ env' = NoEnv
  /\ wire' = NoWire
  /\ resBody' = InvalidBody
  /\ raw' = NoResult
  /\ callRes' = NoResult
  /\ fpc' = "idle"
  /\ cfg' = AdapterCfg
  /\ attempt' = 0
  /\ lastErr' = NoErr
  /\ net' = <<>>
  /\ delays' = <<>>
  /\ aborted' = {}
  /\ fres' = 0
  /\ UNCHANGED <<dbVars, turnVars, fnVars, raceVars>>

(***************************************************************************)
(* POST /api/chats/:id/messages                                            *)
(***************************************************************************)
NoResponse == [status |-> 0, content |-> <<>>, canvas |-> NullServerCanvas]


\* variant that validates the attachments after the user message is stored
TurnRejectAfterInsert ==
  /\ tpc = "idle"
  /\ \E r \in Requests :
       /\ RejectStatus(sessions, files, r) # 0
       /\ req' = r
       /\ res' = [status |-> RejectStatus(sessions, files, r), content |-> <<>>,
                  canvas |-> NullServerCanvas]
       /\ msgs' = IF r.fileIds # {} /\ r.chatId # 0
                    THEN Append(msgs, Row(r.chatId, "user", TextContent(r.content)))
                    ELSE msgs
  /\ tpc' = "rejected"
  /\ called' = <<>>
  /\ len0' = Len(msgs)
  /\ result' = NoResult
  /\ UNCHANGED <<sessions, files, uuid, fetchVars, callVars, fnVars, raceVars>>

\* a request fails validation: the error middleware answers, nothing else
TurnReject ==
  /\ tpc = "idle"
  /\ \E r \in Requests :
       /\ RejectStatus(sessions, files, r) # 0
       /\ req' = r
       /\ res' = [status |-> RejectStatus(sessions, files, r), content |-> <<>>,
                  canvas |-> NullServerCanvas]
  /\ tpc' = "rejected"
  /\ called' = <<>>
  /\ len0' = Len(msgs)
  /\ result' = NoResult
  /\ UNCHANGED <<dbVars, fetchVars, callVars, fnVars, raceVars>>

\* the handler from a request r that passes validation up to the awaited
\* call of the model: user message, auto-title, attachment binding, context
\* assembly
Accept(r) ==
  /\ tpc = "idle"
  /\ RejectStatus(sessions, files, r) = 0
  /\ req' = r
  /\ LET ids == SortedIds(FileRowIds(files, r))
         withUser == Append(msgs, Row(r.chatId, "user",
                                      TextContent(UserContentToSave(files, r))))
         userMsgCount ==
           Len(SelectSeq(ChatRows(withUser, r.chatId), LAMBDA row : row.role = "user"))
         curTitle == Trim(sessions[r.chatId].title)
         stored == withUser \o AttachmentRows(files, r.chatId, ids)
         existingCanvas == ExistingCanvas(stored, r)
     IN  /\ msgs' = stored
         /\ sessions' =
              IF userMsgCount = 1 /\ (curTitle = <<>> \/ curTitle = DefaultTitle)
                THEN [sessions EXCEPT ![r.chatId].title = AutoTitle(files, r)]
                ELSE sessions
         /\ files' = [f \in DOMAIN files |->
                        IF f \in FileRowIds(files, r) /\ files[f].chat = 0
                          THEN [files[f] EXCEPT !.chat = r.chatId]
                          ELSE files[f]]
         /\ called' = <<[config |-> LookupConfig(r.modelId).config,
                         options |-> TurnOptions(r, TurnCanvasTitle(existingCanvas)),
                         messages |-> MessagesForModel(stored, r),
                         existingCanvas |-> existingCanvas]>>
  /\ tpc' = "calling"
  /\ len0' = Len(msgs)
  /\ result' = NoResult
  /\ res' = NoResponse
  /\ UNCHANGED <<uuid, fetchVars, callVars, fnVars, raceVars>>

\* a request passes validation
TurnAccept ==
  /\ Len(msgs) < MaxMessages
  /\ \E r \in Requests : Accept(r)

\* the assistant message written before the canvas marker
RowsOfTurnReplyFirst(chatId, target, canvasObj, replyText) ==
  <<Row(chatId, "assistant", TextContent(replyText))>>
    \o (IF target = "canvas"
          THEN <<Row(chatId, "system", MarkerContent(canvasObj))>>
          ELSE <<>>)

\* a canvas marker written whatever the output target
RowsOfTurnMarkerAlways(chatId, target, canvasObj, replyText) ==
  <<Row(chatId, "system", MarkerContent(canvasObj)),
    Row(chatId, "assistant", TextContent(replyText))>>

\* the rows inserted after the model call: in canvas mode the marker row
\* (step 3.1), then the assistant row (step 4)
RowsOfTurn(chatId, target, canvasObj, replyText) ==
  (IF target = "canvas"
     THEN <<Row(chatId, "system", MarkerContent(canvasObj))>>
     ELSE <<>>)
    \o <<Row(chatId, "assistant", TextContent(replyText))>>

\* callModelWithConfig returned: result unpacking, canvas merge and marker,
\* assistant message, response
TurnFinish ==
  /\ tpc = "calling"
  /\ \E out \in AdapterOutcomes(called[1].config) :
       LET returned == RouterResult(called[1].options, out)
           wantNewCanvas == req.canvasMode = "new"
           existingCanvas == called[1].existingCanvas
           text0 == returned.text
           canvas0 == IF returned.kind = "string" THEN NullServerCanvas
                      ELSE FromResultCanvas(returned.canvas)
           canvasObj == MergedCanvas(existingCanvas, wantNewCanvas,
                                     called[1].options.canvasTitle,
                                     text0, canvas0, RandomUUID(uuid + 1))
           replyText == IF req.outputTarget = "canvas"
                          THEN (IF Trim(text0) # <<>> THEN text0 ELSE WrittenToCanvas)
                          ELSE text0
           canvas == IF req.outputTarget = "canvas" THEN canvasObj ELSE canvas0
       IN  /\ result' = returned
           /\ msgs' = msgs \o RowsOfTurn(req.chatId, req.outputTarget, canvasObj, replyText)
           /\ uuid' = IF req.outputTarget = "canvas" /\ canvasObj.id = RandomUUID(uuid + 1)
                        THEN uuid + 1 ELSE uuid
           /\ res' = [status |-> 200, content |-> replyText, canvas |-> canvas]
  /\ tpc' = "done"
  /\ UNCHANGED <<sessions, files, req, called, len0, fetchVars, callVars, fnVars, raceVars>>

\* the response is sent; the handler's locals are gone
TurnEnd ==
  /\ tpc \in {"done", "rejected"}
  /\ tpc' = "idle"
  /\ req' = NoRequest
  /\ called' = <<>>
  /\ len0' = 0
  /\ result' = NoResult
  /\ res' = NoResponse
  /\ UNCHANGED <<dbVars, fetchVars, callVars, fnVars, raceVars>>

\* state at server start: no call in progress, empty message table, two
\* conversations of two users, two files uploaded by user 1 and not yet sent
Init ==
  /\ fpc = "idle"
  /\ cfg = AdapterCfg
  /\ attempt = 0
  /\ lastErr = NoErr
  /\ net = <<>>
  /\ delays = <<>>
  /\ aborted = {}
  /\ fres = 0
  /\ cpc = "idle"
  /\ config = ForeignConfig
  /\ messages = <<>>
  /\ options = NoOptions
  /\ env = NoEnv
  /\ wire = NoWire
  /\ resBody = InvalidBody
  /\ raw = NoResult
  /\ callRes = NoResult
  /\ msgs = <<>>
  /\ sessions = [c \in Chats |-> [user |-> c, title |-> DefaultTitle]]
  /\ files = [f \in FileIds |->
                [user |-> 1, chat |-> 0, name |-> <<"f", ToString(f)>>,
                 analysis |-> <<"text-of", ToString(f)>>]]
  /\ uuid = 0
  /\ tpc = "idle"
  /\ req = NoRequest
  /\ called = <<>>
  /\ len0 = 0
  /\ result = NoResult
  /\ res = NoResponse
  /\ fn = "none"
  /\ arg = NoArg
  /\ ret = NoRet
  /\ uploads = NoUploads
  /\ handlers = NoHandlers
  /\ client = NoClient

\* a canvas text longer than the context budget
LongContent ==
  <<"head">> \o [i \in 1..ContextBudget |-> "x"] \o <<"tail">>

\* the tables after one canvas-mode turn on conversation 1 whose model
\* output was LongContent: user message, canvas marker, assistant message
LongHistory ==
  <<Row(1, "user", TextContent(<<"q">>)),
    Row(1, "system",
        MarkerContent(ServerCanvas(RandomUUID(1), DefaultCanvasTitle, LongContent))),
    Row(1, "assistant", TextContent(WrittenToCanvas))>>

\* state at a server start over a database that is empty or holds the
\* history of one earlier canvas turn
InitCanvas ==
  /\ fpc = "idle"
  /\ cfg = AdapterCfg
  /\ attempt = 0
  /\ lastErr = NoErr
  /\ net = <<>>
  /\ delays = <<>>
  /\ aborted = {}
  /\ fres = 0
  /\ cpc = "idle"
  /\ config = ForeignConfig
  /\ messages = <<>>
  /\ options = NoOptions
  /\ env = NoEnv
  /\ wire = NoWire
  /\ resBody = InvalidBody
  /\ raw = NoResult
  /\ callRes = NoResult
  /\ \E long \in BOOLEAN :
       /\ msgs = IF long THEN LongHistory ELSE <<>>
       /\ sessions = [c \in Chats |->
                        [user |-> c,
                         title |-> IF long /\ c = 1 THEN <<"q">> ELSE DefaultTitle]]
       /\ uuid = IF long THEN 1 ELSE 0
  /\ files = [f \in FileIds |->
                [user |-> 1, chat |-> 0, name |-> <<"f", ToString(f)>>,
                 analysis |-> <<"text-of", ToString(f)>>]]
  /\ tpc = "idle"
  /\ req = NoRequest
  /\ called = <<>>
  /\ len0 = 0
  /\ result = NoResult
  /\ res = NoResponse
  /\ fn = "none"
  /\ arg = NoArg
  /\ ret = NoRet
  /\ uploads = NoUploads
  /\ handlers = NoHandlers
  /\ client = NoClient

NextTurn ==
  \/ TurnReject
  \/ TurnAccept
  \/ TurnFinish
  \/ TurnEnd

\* the message handler serving one request at a time
SpecTurn == Init /\ [][NextTurn]_vars

\* state in which file 1 may already be bound to another conversation of its
\* owner (conversation 3), or belong to another user
InitBound ==
  /\ fpc = "idle"
  /\ cfg = AdapterCfg
  /\ attempt = 0
  /\ lastErr = NoErr
  /\ net = <<>>
  /\ delays = <<>>
  /\ aborted = {}
  /\ fres = 0
  /\ cpc = "idle"
  /\ config = ForeignConfig
  /\ messages = <<>>
  /\ options = NoOptions
  /\ env = NoEnv
  /\ wire = NoWire
  /\ resBody = InvalidBody
  /\ raw = NoResult
  /\ callRes = NoResult
  /\ msgs = <<>>
  /\ sessions = [c \in Chats \cup {3} |->
                   [user |-> IF c = 3 THEN 1 ELSE c, title |-> DefaultTitle]]
  /\ \E owner \in {1, 2}, chat \in {0, 3} :
       /\ owner = 2 => chat = 0
       /\ files = [f \in FileIds |->
                     [user |-> IF f = 1 THEN owner ELSE 1,
                      chat |-> IF f = 1 THEN chat ELSE 0,
                      name |-> <<"f", ToString(f)>>,
                      analysis |-> <<"text-of", ToString(f)>>]]
  /\ uuid = 0
  /\ tpc = "idle"
  /\ req = NoRequest
  /\ called = <<>>
  /\ len0 = 0
  /\ result = NoResult
  /\ res = NoResponse
  /\ fn = "none"
  /\ arg = NoArg
  /\ ret = NoRet
  /\ uploads = NoUploads
  /\ handlers = NoHandlers
  /\ client = NoClient

\* accepted requests of that handler: by user 1 on conversation 1 with one
\* model, with and without text and attachment, for the chat and the canvas
BoundRequests ==
  {r \in Requests :
     r.chatId = 1 /\ r.modelId = "gpt-5" /\ ~r.depthMode}

BoundTurnAccept ==
  /\ Len(msgs) < MaxMessages
  /\ \E r \in BoundRequests : Accept(r)

NextBound ==
  \/ TurnReject
  \/ BoundTurnAccept
  \/ TurnFinish
  \/ TurnEnd

\* the message handler when attachments may be unusable
SpecBound == InitBound /\ [][NextBound]_vars

\* requests of one user working on the canvas of conversation 1; the
\* client sends a canvas mode with canvas-mode messages only
CanvasRequests ==
  { r \in [user : {1},
           chatId : {1},
           content : {<<"q">>},
           modelId : {"gpt-5", "deepseek-chat"},
           depthMode : {FALSE},
           outputTarget : {"chat", "canvas"},
           canvasMode : {"", "append", "new"},
           fileIds : {{}}] :
      r.canvasMode = "" <=> r.outputTarget = "chat" }

\* user messages stored so far: one per accepted turn
UserTurns == Len(SelectSeq(msgs, LAMBDA row : row.role = "user"))

\* the database was started with LongHistory
StartedLong ==
  Len(msgs) >= Len(LongHistory) /\ SubSeq(msgs, 1, Len(LongHistory)) = LongHistory

\* a canvas-session request passes validation; a session over the
\* over-budget canvas is followed for one turn
CanvasTurnAccept ==
  /\ UserTurns < MaxCanvasTurns
  /\ StartedLong => msgs = LongHistory
  /\ \E r \in CanvasRequests : Accept(r)

NextCanvas ==
  \/ CanvasTurnAccept
  \/ TurnFinish
  \/ TurnEnd

\* a session of up to MaxCanvasTurns turns on the canvas of one conversation
SpecCanvas == InitCanvas /\ [][NextCanvas]_vars

(***************************************************************************)
(* Two calls of the message handler on conversation 1                      *)
(***************************************************************************)
\* canvas-mode requests of user 1 that continue the canvas of conversation 1,
\* served by one model whose answers are plain text
RaceRequests ==
  {r \in CanvasRequests :
     r.outputTarget = "canvas" /\ r.canvasMode = "append"
       /\ r.modelId = "deepseek-chat"}

\* some call other than h is between its first INSERT and its response
OtherInProgress(h) == \E g \in Handlers \ {h} : handlers.calls[g].pc # "idle"

\* the request passed validation; the user message is stored and the
\* conversation gets its title (steps 1 and 1.1)
RaceStore(h) ==
  /\ handlers.calls[h].pc = "idle"
  /\ Len(handlers.turns) < MaxRaceTurns
  /\ \E r \in RaceRequests :
       /\ RejectStatus(sessions, files, r) = 0
       /\ LET withUser == Append(msgs, Row(r.chatId, "user",
                                           TextContent(UserContentToSave(files, r))))
              userMsgCount ==
                Len(SelectSeq(ChatRows(withUser, r.chatId), LAMBDA row : row.role = "user"))
              curTitle == Trim(sessions[r.chatId].title)
              k == Len(handlers.turns) + 1
          IN  /\ msgs' = withUser
              /\ sessions' =
                   IF userMsgCount = 1 /\ (curTitle = <<>> \/ curTitle = DefaultTitle)
                     THEN [sessions EXCEPT ![r.chatId].title = AutoTitle(files, r)]
                     ELSE sessions
              /\ handlers' =
                   [calls |-> [handlers.calls EXCEPT
                                 ![h] = [NoHandlerCall EXCEPT
                                           !.pc = "stored", !.req = r, !.turn = k]],
                    turns |-> [i \in 1..k |->
                                 IF i = k
                                   THEN [NoTurnRecord EXCEPT !.overlapped = OtherInProgress(h)]
                                 ELSE IF \E g \in Handlers \ {h} :
                                           handlers.calls[g].pc # "idle"
                                             /\ handlers.calls[g].turn = i
                                   THEN [handlers.turns[i] EXCEPT !.overlapped = TRUE]
                                 ELSE handlers.turns[i]]]
  /\ UNCHANGED <<files, uuid, fetchVars, callVars, turnVars, fnVars, uploads, client>>

\* the history and the most recent marker are read and the context is
\* assembled (step 2); the model call starts
RaceDerive(h) ==
  /\ handlers.calls[h].pc = "stored"
  /\ LET existingCanvas == ExistingCanvas(msgs, handlers.calls[h].req)
     IN  handlers' = [handlers EXCEPT
                        !.calls[h].pc = "calling",
                        !.calls[h].existingCanvas = existingCanvas,
                        !.calls[h].canvasTitle = TurnCanvasTitle(existingCanvas)]
  /\ UNCHANGED <<dbVars, fetchVars, callVars, turnVars, fnVars, uploads, client>>

\* callModelWithConfig returned: the chunk is merged into the canvas read in
\* step 2 and the marker is stored (step 3.1)
RaceReturn(h) ==
  /\ handlers.calls[h].pc = "calling"
  /\ LET call == handlers.calls[h]
         r == call.req
     IN  \E out \in AdapterOutcomes(LookupConfig(r.modelId).config) :
           LET returned == RouterResult(TurnOptions(r, call.canvasTitle), out)
               text0 == returned.text
               canvas0 == IF returned.kind = "string" THEN NullServerCanvas
                          ELSE FromResultCanvas(returned.canvas)
               fresh == RandomUUID(uuid + 1)
               canvasObj == MergedCanvas(call.existingCanvas, FALSE, call.canvasTitle,
                                         text0, canvas0, fresh)
               replyText == IF Trim(text0) # <<>> THEN text0 ELSE WrittenToCanvas
           IN  /\ msgs' = Append(msgs, RowsOfTurn(r.chatId, r.outputTarget,
                                                   canvasObj, replyText)[1])
               /\ uuid' = IF canvasObj.id = fresh THEN uuid + 1 ELSE uuid
               /\ handlers' = [handlers EXCEPT
                                 !.calls[h].pc = "marked",
                                 !.calls[h].replyText = replyText,
                                 !.turns[call.turn].chunk = CanvasChunk(text0, canvas0),
                                 !.turns[call.turn].marked = TRUE]
  /\ UNCHANGED <<sessions, files, fetchVars, callVars, turnVars, fnVars, uploads, client>>

\* the assistant message is stored and the response sent (steps 4 and 5)
RaceReply(h) ==
  /\ handlers.calls[h].pc = "marked"
  /\ LET call == handlers.calls[h]
     IN  /\ msgs' = Append(msgs, RowsOfTurn(call.req.chatId, call.req.outputTarget,
                                             NullServerCanvas, call.replyText)[2])
         /\ handlers' = [handlers EXCEPT
                           !.calls[h] = NoHandlerCall,
                           !.turns[call.turn].done = TRUE]
  /\ UNCHANGED <<sessions, files, uuid, fetchVars, callVars, turnVars, fnVars, uploads, client>>

NextRace ==
  \E h \in Handlers :
    \/ RaceStore(h)
    \/ RaceDerive(h)
    \/ RaceReturn(h)
    \/ RaceReply(h)

\* up to MaxRaceTurns canvas turns on one conversation, served by two calls
\* of the handler that may overlap
SpecRace == Init /\ [][NextRace]_vars

(***************************************************************************)
(* The client and the message handler: ChatLayout.tsx sending to           *)
(* conversation 1, its POSTs served in their order                         *)
(***************************************************************************)
\* The message handler reads nothing of the component and the component
\* nothing of the handler's turn, so a click or a key pressed while the
\* handler works on a turn is taken just before the turn: the steps of the
\* user are enabled between two turns of the handler only.

\* the canvas pill: setOutputMode(m => m === 'canvas' ? 'chat' : 'canvas')
ClientToggleCanvas ==
  /\ tpc = "idle"
  /\ client' = [client EXCEPT
                  !.outputMode = IF @ = "canvas" THEN "chat" ELSE "canvas"]
  /\ UNCHANGED <<fetchVars, callVars, dbVars, turnVars, fnVars, uploads, handlers>>

\* the new-canvas button: setOutputMode('canvas'); setNewCanvasNext(true)
ClientArmNew ==
  /\ tpc = "idle"
  /\ client' = [client EXCEPT
                  !.outputMode = "canvas", !.newCanvasNext = TRUE,
                  !.armedSinceOk = TRUE, !.armedSincePost = TRUE]
  /\ UNCHANGED <<fetchVars, callVars, dbVars, turnVars, fnVars, uploads, handlers>>

\* the user types a text and presses Enter: onKeyDown calls handleSend
ClientPressEnter ==
  /\ tpc = "idle"
  /\ client.sent < MaxClientSends
  /\ \E t \in ClientTexts : client' = HandleSend(client, t)
  /\ UNCHANGED <<fetchVars, callVars, dbVars, turnVars, fnVars, uploads, handlers>>

\* the user types a text and clicks the send button, which is disabled
\* while sending
ClientClickSend ==
  /\ tpc = "idle"
  /\ ~client.sending
  /\ client.sent < MaxClientSends
  /\ \E t \in ClientTexts : client' = HandleSend(client, t)
  /\ UNCHANGED <<fetchVars, callVars, dbVars, turnVars, fnVars, uploads, handlers>>

\* the oldest POST in flight reaches the message handler
ServerAcceptPost ==
  /\ client.calls # <<>>
  /\ Accept(client.calls[1].req)

\* the response of the POST arrives: handleSend from its await to its end
ClientReceive ==
  /\ tpc = "done"
  /\ client' = [client EXCEPT
                  !.calls = Tail(@),
                  !.canvas = IF ~res.canvas.isNull /\ res.canvas.content # <<>>
                               THEN ShownCanvas(res.canvas) ELSE @,
                  !.newCanvasNext = FALSE,
                  !.armedSinceOk = FALSE,
                  !.sending = FALSE]
  /\ tpc' = "idle"
  /\ req' = NoRequest
  /\ called' = <<>>
  /\ len0' = 0
  /\ result' = NoResult
  /\ res' = NoResponse
  /\ UNCHANGED <<fetchVars, callVars, dbVars, fnVars, uploads, handlers>>

\* the oldest POST in flight fails before it reaches the handler: the catch
\* and finally blocks of handleSend
ClientSendFails ==
  /\ tpc = "idle"
  /\ client.calls # <<>>
  /\ client' = [client EXCEPT !.calls = Tail(@), !.sending = FALSE]
  /\ UNCHANGED <<fetchVars, callVars, dbVars, turnVars, fnVars, uploads, handlers>>

\* loadMessages between two turns of the handler: the stored messages are
\* fetched and the canvas restored
ClientReload ==
  /\ tpc = "idle"
  /\ LET rows == ChatRows(msgs, 1)
     IN  client' = [client EXCEPT !.canvas = extractLatestCanvas(rows, Len(rows))]
  /\ UNCHANGED <<fetchVars, callVars, dbVars, turnVars, fnVars, uploads, handlers>>

NextClient ==
  \/ ClientToggleCanvas
  \/ ClientArmNew
  \/ ClientPressEnter
  \/ ClientClickSend
  \/ ServerAcceptPost
  \/ TurnFinish
  \/ ClientReceive
  \/ ClientSendFails
  \/ ClientReload

\* up to MaxClientSends messages sent from the component to conversation 1
SpecClient == Init /\ [][NextClient]_vars

(***************************************************************************)
(* The helper functions applied on their own to one input                  *)
(***************************************************************************)
\* state before a helper function is applied: the state at server start with
\* one input chosen
InitHelper ==
  /\ fpc = "idle"
  /\ cfg = AdapterCfg
  /\ attempt = 0
  /\ lastErr = NoErr
  /\ net = <<>>
  /\ delays = <<>>
  /\ aborted = {}
  /\ fres = 0
  /\ cpc = "idle"
  /\ config = ForeignConfig
  /\ messages = <<>>
  /\ options = NoOptions
  /\ env = NoEnv
  /\ wire = NoWire
  /\ resBody = InvalidBody
  /\ raw = NoResult
  /\ callRes = NoResult
  /\ msgs = <<>>
  /\ sessions = [c \in Chats |-> [user |-> c, title |-> DefaultTitle]]
  /\ files = [f \in FileIds |->
                [user |-> 1, chat |-> 0, name |-> <<"f", ToString(f)>>,
                 analysis |-> <<"text-of", ToString(f)>>]]
  /\ uuid = 0
  /\ tpc = "idle"
  /\ req = NoRequest
  /\ called = <<>>
  /\ len0 = 0
  /\ result = NoResult
  /\ res = NoResponse
  /\ fn = "none"
  /\ arg \in HelperInputs
  /\ ret = NoRet
  /\ uploads = NoUploads
  /\ handlers = NoHandlers
  /\ client = NoClient

\* truncateForModel(str, maxChars)
Truncate ==
  /\ fn = "none"
  /\ arg.kind = "truncate"
  /\ fn' = "truncateForModel"
  /\ ret' = [NoRet EXCEPT !.text = truncateForModel(arg.str, arg.maxChars)]
  /\ UNCHANGED <<raceVars, arg, fetchVars, callVars, dbVars, turnVars>>

\* CANVAS_PREFIX + JSON.stringify(canvasObj), the content of the marker row
EmitMarker ==
  /\ fn = "none"
  /\ arg.kind = "canvas"
  /\ fn' = "emit"
  /\ ret' = [NoRet EXCEPT !.text = MarkerContent(arg.canvas)]
  /\ UNCHANGED <<raceVars, arg, fetchVars, callVars, dbVars, turnVars>>

\* safeParseCanvasSystem applied to the marker just emitted
ParseMarker ==
  /\ fn = "emit"
  /\ fn' = "safeParseCanvasSystem"
  /\ ret' = [ret EXCEPT !.canvas = safeParseCanvasSystem(ret.text)]
  /\ UNCHANGED <<raceVars, arg, fetchVars, callVars, dbVars, turnVars>>

\* safeParseCanvasSystem applied to a stored text
ParseStored ==
  /\ fn = "none"
  /\ arg.kind = "text"
  /\ fn' = "safeParseCanvasSystem"
  /\ ret' = [NoRet EXCEPT !.text = arg.text,
                          !.canvas = safeParseCanvasSystem(arg.text)]
  /\ UNCHANGED <<raceVars, arg, fetchVars, callVars, dbVars, turnVars>>

\* result.insertId of an insert into a table
InsertId(table) == Cardinality(DOMAIN table) + 1

\* POST /api/upload by user 1: 400 without a file; otherwise the file is
\* analysed with fresh quota counters and stored with its analysis text; an
\* exception of the analysis reaches the error middleware (500)
Upload ==
  /\ fn = "none"
  /\ arg.kind = "upload"
  /\ fn' = "upload"
  /\ IF ~arg.hasFile
       THEN /\ ret' = [NoRet EXCEPT !.status = 400]
            /\ files' = files
       ELSE LET analysis == analyzeFileBuffer(arg.file, 0, NewZipState)
            IN  /\ ret' = [NoRet EXCEPT !.status = IF analysis.thrown THEN 500 ELSE 200,
                                        !.analysis = analysis]
                /\ files' = IF analysis.thrown THEN files
                            ELSE files @@
                                   (InsertId(files) :>
                                      [user |-> 1, chat |-> 0, name |-> arg.file.path,
                                       analysis |-> analysis.out])
  /\ UNCHANGED <<raceVars, arg, msgs, sessions, uuid, fetchVars, callVars, turnVars>>

NextHelper ==
  \/ Truncate
  \/ EmitMarker
  \/ ParseMarker
  \/ ParseStored
  \/ Upload

SpecHelper == InitHelper /\ [][NextHelper]_vars

(***************************************************************************)
(* POST /api/upload, two uploaders at a time                               *)
(***************************************************************************)
\* the handler is entered with a file and calls analyzeFileBuffer(name,
\* buffer, 0), which creates the counters object
StartUpload(p) ==
  /\ uploads.calls[p].pc = "idle"
  /\ uploads.started < MaxUploads
  /\ \E file \in ConcurrentFiles :
       LET ref == NewZipStateRef(p)
           call == [pc |-> "running", file |-> file, zipState |-> ref,
                    frames |-> <<>>, out |-> <<>>]
       IN  uploads' = [calls |-> [uploads.calls EXCEPT ![p] = EnterFile(call, file, 0)],
                       zipStates |-> [uploads.zipStates EXCEPT ![ref] = ZeroCounters],
                       started |-> uploads.started + 1]
  /\ UNCHANGED <<fetchVars, callVars, dbVars, turnVars, fnVars, handlers, client>>

\* the loop moves to its next entry: the loop ends, or the entry is skipped
\* as no file, or it is counted and either the note about the entry quota
\* ends the loop or f.buffer() is awaited
CountEntry(p) ==
  LET call == uploads.calls[p] IN
  /\ call.pc = "running"
  /\ call.frames # <<>>
  /\ Head(call.frames).stage = "count"
  /\ LET top == Head(call.frames)
         rest == Tail(call.frames)
         counted == uploads.zipStates[call.zipState].files + 1
     IN  IF top.i > Len(top.entries)
           THEN uploads' = [uploads EXCEPT !.calls[p].frames = rest]
         ELSE IF top.entries[top.i].type # "File"
           THEN uploads' = [uploads EXCEPT
                              !.calls[p].frames = <<[top EXCEPT !.i = @ + 1]>> \o rest]
         ELSE IF counted > MAX_ZIP_FILES
           THEN uploads' = [uploads EXCEPT
                              !.zipStates[call.zipState].files = counted,
                              !.calls[p].out = @ \o FilesLimitNote,
                              !.calls[p].frames = rest]
         ELSE uploads' = [uploads EXCEPT
                            !.zipStates[call.zipState].files = counted,
                            !.calls[p].frames = <<[top EXCEPT !.stage = "buffer"]>> \o rest]
  /\ UNCHANGED <<fetchVars, callVars, dbVars, turnVars, fnVars, handlers, client>>

\* f.buffer() resolved: the bytes are charged and either the note about the
\* byte quota ends the loop or the entry's header is written and the entry
\* is analysed one level deeper
BufferEntry(p) ==
  LET call == uploads.calls[p] IN
  /\ call.pc = "running"
  /\ call.frames # <<>>
  /\ Head(call.frames).stage = "buffer"
  /\ LET top == Head(call.frames)
         rest == Tail(call.frames)
         f == top.entries[top.i]
         charged == uploads.zipStates[call.zipState].bytes + f.size
         advanced == [call EXCEPT
                        !.out = @ \o EntryHeader(f.path),
                        !.frames = <<[top EXCEPT !.i = @ + 1, !.stage = "count"]>> \o rest]
     IN  IF charged > MAX_ZIP_TOTAL_BYTES
           THEN uploads' = [uploads EXCEPT
                              !.zipStates[call.zipState].bytes = charged,
                              !.calls[p].out = @ \o BytesLimitNote,
                              !.calls[p].frames = rest]
           ELSE uploads' = [uploads EXCEPT
                              !.zipStates[call.zipState].bytes = charged,
                              !.calls[p] = EnterFile(advanced, f, top.depth + 1)]
  /\ UNCHANGED <<fetchVars, callVars, dbVars, turnVars, fnVars, handlers, client>>

\* analyzeFileBuffer returned to the handler: the file is stored with its
\* analysis text
StoreUpload(p) ==
  LET call == uploads.calls[p] IN
  /\ call.pc = "running"
  /\ call.frames = <<>>
  /\ uploads' = [uploads EXCEPT !.calls[p].pc = "done"]
  /\ files' = files @@ (InsertId(files) :>
                          [user |-> 1, chat |-> 0, name |-> call.file.path,
                           analysis |-> call.out])
  /\ UNCHANGED <<msgs, sessions, uuid, fetchVars, callVars, turnVars, fnVars, handlers, client>>

\* the response is sent (200, or 500 by the error middleware); the handler's
\* locals are gone, the counters object is garbage
EndUpload(p) ==
  /\ uploads.calls[p].pc \in {"done", "failed"}
  /\ uploads' = [uploads EXCEPT !.calls[p] = NoUploadCall]
  /\ UNCHANGED <<fetchVars, callVars, dbVars, turnVars, fnVars, handlers, client>>

NextUploads ==
  \E p \in Uploaders :
    \/ StartUpload(p)
    \/ CountEntry(p)
    \/ BufferEntry(p)
    \/ StoreUpload(p)
    \/ EndUpload(p)

SpecUploads == Init /\ [][NextUploads]_vars

(***************************************************************************)
(* Specification of one or more invocations of fetchWithRetry              *)
(***************************************************************************)
FetchCall ==
  /\ fpc \in {"idle", "returned", "thrown"}
  /\ \E c \in Cfgs : FetchEnter(c)
  /\ UNCHANGED <<callVars, dbVars, turnVars, fnVars, raceVars>>

NextFetch ==
  \/ FetchCall
  \/ AttemptResponse
  \/ AttemptTimeout
  \/ AttemptError
  \/ SleepDone

SpecFetch == Init /\ [][NextFetch]_vars

(***************************************************************************)
(* Specification of model calls: callModelWithConfig over the adapters     *)
(* and the transport                                                       *)
(***************************************************************************)
NextCall ==
  \/ CallStart
  \/ AttemptResponse
  \/ AttemptTimeout
  \/ AttemptError
  \/ SleepDone
  \/ AdapterResponse
  \/ AdapterFetchThrew
  \/ CallReturn

SpecCall == Init /\ [][NextCall]_vars

(***************************************************************************)
(* Properties of the transport                                             *)
(***************************************************************************)
\* number of fetch attempts performed so far by the invocation
Attempts == Len(net)

LastNet == net[Len(net)]

\* C1: one invocation of fetchWithRetry performs at most retries+1 fetch
\* attempts (3 with the adapters' policy), and once it has performed
\* retries+1 of them it has returned or thrown.
C1_AtMostRetriesPlusOne ==
  /\ Attempts <= cfg.retries + 1
  /\ (cfg = AdapterCfg => Attempts <= 3)
  /\ (Attempts = cfg.retries + 1 => fpc \in {"returned", "thrown"})

\* the adapters' policy used up all three attempts on retryable outcomes
C1_Witness ==
  /\ cfg = AdapterCfg
  /\ Attempts = 3
  /\ Len(delays) = 2
  /\ fpc \in {"returned", "thrown"}

\* a status the claims call not retryable: anything but 429 and 500-599
NonRetryable(status) == status # 429 /\ ~(status \in 500..599)

\* C2: a response whose status is not retryable (not 429, not 500-599) is
\* returned to the caller at once, whatever the attempt number: it is the
\* last attempt of the invocation, it is the value returned, and no backoff
\* delay is slept for it.
C2_NonRetryableReturnedAtOnce ==
  \A i \in 1..Len(net) :
    (net[i].kind = "status" /\ NonRetryable(net[i].status)) =>
      /\ i = Len(net)
      /\ fpc = "returned"
      /\ fres = net[i].status
      /\ Len(delays) = i - 1

\* a 404 answered on a retry (not the first attempt) was returned
C2_Witness ==
  /\ Len(net) = 2
  /\ net[2].kind = "status"
  /\ net[2].status = 404
  /\ cfg.retries >= 2
  /\ fpc = "returned"

\* the first n attempts all answered 429 or 5xx
AllRetryableStatuses(n) ==
  \A i \in 1..n :
    net[i].kind = "status" /\ (net[i].status = 429 \/ net[i].status \in 500..599)

\* C3: while the first k <= retries attempts each answer a retryable status
\* the invocation goes on to attempt k+1, and when attempt k+1 answers a
\* success status that response is returned after exactly k+1 attempts;
\* 500, 500, 200 gives three attempts and the 200.
C3_RetryThenSuccess ==
  /\ (Len(net) <= cfg.retries /\ AllRetryableStatuses(Len(net)) /\ fpc # "idle")
        => fpc \in {"attempt", "sleep"}
  /\ (/\ Len(net) >= 1
      /\ AllRetryableStatuses(Len(net) - 1)
      /\ LastNet.kind = "status"
      /\ LastNet.status \in 200..299)
        => /\ fpc = "returned"
           /\ fres = LastNet.status
           /\ Len(net) <= cfg.retries + 1

\* scenario A: 500, 500, 200 under the adapters' policy
C3_Witness ==
  /\ cfg = AdapterCfg
  /\ Len(net) = 3
  /\ net[1].status = 500 /\ net[2].status = 500 /\ net[3].status = 200
  /\ fpc = "returned"
  /\ fres = 200

\* the delay the claim gives for retry number n
ClaimedDelay(n) ==
  LET d == cfg.baseDelayMs * (2 ^ (n - 1))
  IN  IF d < cfg.maxDelayMs THEN d ELSE cfg.maxDelayMs

\* C4: the delay slept before retry number n is
\* min(maxDelayMs, baseDelayMs * 2^(n-1)), after a retryable status and
\* after a retryable error alike; the delays of one invocation are
\* non-decreasing and never exceed maxDelayMs (600 then 1200 with the
\* defaults).
C4_BackoffDelays ==
  /\ \A n \in 1..Len(delays) :
       /\ delays[n] = ClaimedDelay(n)
       /\ delays[n] <= cfg.maxDelayMs
       /\ (n > 1 => delays[n - 1] <= delays[n])
  /\ (cfg = AdapterCfg /\ Len(delays) >= 1 => delays[1] = 600)
  /\ (cfg = AdapterCfg /\ Len(delays) >= 2 => delays[2] = 1200)

\* two delays with the defaults, one after a status and one after an error
C4_Witness ==
  /\ cfg = AdapterCfg
  /\ delays = <<600, 1200>>
  /\ net[1].kind = "status"
  /\ net[2].kind = "error"

\* errors the claim names as retried: timeout, connection reset, name
\* resolution failure
ClaimedRetried(o) ==
  \/ o.kind = "timeout"
  \/ /\ o.kind = "error"
     /\ \/ Includes(o.err.message, "ETIMEDOUT")
        \/ Includes(o.err.message, "ECONNRESET")
        \/ Includes(o.err.message, "ENOTFOUND")
        \/ Includes(o.err.message, "EAI_AGAIN")

\* C5: an attempt that exceeds timeoutMs is cancelled and, if attempts
\* remain, a fresh attempt is started after the backoff delay; the same
\* holds for connection-reset and name-resolution errors; any other
\* transport error is thrown without a further attempt.
C5_TimeoutIsRetried ==
  /\ \A i \in 1..Len(net) : net[i].kind = "timeout" => (i - 1) \in aborted
  /\ (fpc = "thrown" /\ Len(net) >= 1 /\ ClaimedRetried(LastNet))
        => Len(net) = cfg.retries + 1
  /\ \A i \in 1..Len(net) :
       (net[i].kind = "error" /\ ~ClaimedRetried(net[i]))
          => (i = Len(net) /\ fpc = "thrown")

(***************************************************************************)
(* Properties of the router and the adapters                               *)
(***************************************************************************)
\* the adapter failed for one of the reasons the claim lists: unknown
\* provider, missing API key, transport error after the retries, non-2xx
\* response
AdapterFailed ==
  \/ config.provider \notin {"openai", "deepseek", "gemini"}
  \/ (config.provider = "openai" /\ ~env.OPENAI_API_KEY)
  \/ (config.provider = "deepseek" /\ ~env.DEEPSEEK_API_KEY)
  \/ (config.provider = "gemini" /\ ~env.GEMINI_API_KEY)
  \/ (wire # NoWire /\ fpc = "thrown")
  \/ (wire # NoWire /\ fpc = "returned" /\ ~(fres \in 200..299))

\* C6: callModelWithConfig never throws; for every adapter failure it
\* returns the soft-failure value: the apology text as a plain reply when
\* outputTarget is chat, and a result with empty text and a canvas whose
\* content is the apology text when outputTarget is canvas.
C6_SoftFailure ==
  cpc = "done" =>
    /\ callRes.kind \in {"string", "object"}
    /\ AdapterFailed =>
         IF options.outputTarget = "canvas"
           THEN /\ callRes.kind = "object"
                /\ callRes.text = <<>>
                /\ ~callRes.canvas.isNull
                /\ callRes.canvas.content = ApologyMsg
           ELSE /\ callRes.kind = "string"
                /\ callRes.text = ApologyMsg

\* a canvas-mode call whose transport gave up after three attempts
C6_Witness ==
  /\ cpc = "done"
  /\ options.outputTarget = "canvas"
  /\ fpc = "thrown"
  /\ Len(net) = 3
  /\ callRes.canvas.content = ApologyMsg

\* C7: the reasoning option and the web-search option reach the provider
\* request only if both the model's capability flag and the caller's intent
\* are true; otherwise the request has no reasoning field, no reduced
\* temperature and no web_search tool.
C7_CapabilityGating ==
  wire # NoWire =>
    /\ (wire.reasoning \/ wire.temperature = 2)
          => (options.depthMode /\ config.capabilities.reasoning)
    /\ ("web_search" \in wire.tools)
          => (options.webSearch /\ config.capabilities.webSearch)

\* gpt-5-mini (no reasoning capability) asked for reasoning and web search:
\* the request carries the web_search tool and no reasoning field
C7_Witness ==
  /\ cpc = "fetching"
  /\ config.model = "gpt-5-mini"
  /\ options.depthMode
  /\ options.webSearch
  /\ ~wire.reasoning
  /\ "web_search" \in wire.tools

\* C8: for a model whose capabilities.canvas is false the result of a model
\* call has canvas = null for every request, canvas-target requests
\* included.
C8_NoCanvasWithoutCapability ==
  (cpc = "done" /\ config.provider \in {"deepseek", "gemini"}
     /\ ~config.capabilities.canvas)
    => callRes.canvas.isNull

\* positions of the canvas items of an output list
CanvasPositions(output) == {i \in 1..Len(output) : output[i].type = "canvas"}

\* the canvas block at position i as the adapter reports it
BlockAt(output, i) ==
  Canvas(IF output[i].title = <<>> THEN UntitledCanvas ELSE output[i].title,
         output[i].content)

\* first output_text part of each message item, concatenated in order
RECURSIVE MessageText(_)
MessageText(output) ==
  IF output = <<>> THEN <<>>
  ELSE LET item == Head(output)
           ps == SelectSeq(item.parts, LAMBDA q : q.type = "output_text")
       IN  (IF item.type = "message" /\ ps # <<>> THEN ps[1].text ELSE <<>>)
             \o MessageText(Tail(output))

\* the adapter parsed a response of the canvas-capable provider
ParsedOpenAI == cpc = "done" /\ config.provider = "openai" /\ raw.kind = "object"

\* C9 as claimed: of several output items tagged canvas the parsed result
\* carries the first; with none the parsed canvas is null; message texts
\* are concatenated in order independently of canvas items.
C9_FirstCanvasBlock ==
  ParsedOpenAI =>
    LET ps == CanvasPositions(resBody.output)
    IN  /\ raw.text = MessageText(resBody.output)
        /\ IF ps = {} THEN raw.canvas.isNull
           ELSE raw.canvas =
                  BlockAt(resBody.output, CHOOSE i \in ps : \A j \in ps : i <= j)

\* C9 amended: of several output items tagged canvas the parsed result
\* carries the last one in output order; with none the parsed canvas is
\* null; message texts are concatenated in order independently of canvas
\* items.
C9_LastCanvasBlock ==
  ParsedOpenAI =>
    LET ps == CanvasPositions(resBody.output)
    IN  /\ raw.text = MessageText(resBody.output)
        /\ IF ps = {} THEN raw.canvas.isNull
           ELSE raw.canvas =
                  BlockAt(resBody.output, CHOOSE i \in ps : \A j \in ps : i >= j)

\* a response with two different canvas items and two message items
C9_Witness ==
  /\ ParsedOpenAI
  /\ Cardinality(CanvasPositions(resBody.output)) = 2
  /\ raw.canvas.content = <<"c2">>
  /\ raw.text = <<"a", "b">>

(***************************************************************************)
(* Properties of the message handler                                       *)
(***************************************************************************)
\* the request names a model id that is no entry of the registry
NamesUnknownModel == req.modelId # "" /\ req.modelId \notin ModelIds

\* C10: a message request naming a model id that is not in the static
\* model registry is rejected at request time: it gets an error status, no
\* provider is called for it and no message is stored for it.
C10_UnknownModelRejected ==
  (tpc # "idle" /\ NamesUnknownModel) =>
    /\ tpc = "rejected"
    /\ res.status \in {400, 404}
    /\ called = <<>>
    /\ Len(msgs) = len0

(***************************************************************************)
(* Properties of the canvas                                                *)
(***************************************************************************)
\* a stored row that is a canvas marker record
IsMarkerRow(row) ==
  row.role = "system" /\ row.content # <<>> /\ row.content[1] = CANVAS_PREFIX

\* the history of the request's conversation as it was when the request
\* arrived
PriorRows == ChatRows(SubSeq(msgs, 1, len0), req.chatId)

PriorMarkers == SelectSeq(PriorRows, IsMarkerRow)

\* the canvas of the most recent marker of that history
PriorCanvas == safeParseCanvasSystem(PriorMarkers[Len(PriorMarkers)].content)

\* the row the finished turn stored just before its assistant message
PersistedRow == msgs[Len(msgs) - 1]

PersistedCanvas == safeParseCanvasSystem(PersistedRow.content)

\* the chunk the model produced for the canvas
ModelChunk ==
  IF ~result.canvas.isNull /\ result.canvas.content # <<>>
    THEN result.canvas.content ELSE result.text

IsPrefix(a, b) == Len(a) <= Len(b) /\ SubSeq(b, 1, Len(a)) = a

\* a canvas-mode turn has stored its rows
CanvasTurnDone == tpc = "done" /\ req.outputTarget = "canvas"

AppendTurnDone ==
  CanvasTurnDone /\ req.canvasMode # "new" /\ PriorMarkers # <<>>

NewTurnDone ==
  CanvasTurnDone /\ (req.canvasMode = "new" \/ PriorMarkers = <<>>)

\* C11: append transition. On a canvas-mode turn without "new" intent in a
\* conversation whose most recent canvas marker has content X, id I and
\* title T, with model chunk Y, the marker persisted by the turn has content
\* trim(X + "\n\n" + Y), id I and title T.
C11_AppendTransition ==
  AppendTurnDone =>
    LET prior == PriorCanvas
        persisted == PersistedCanvas
    IN  /\ IsMarkerRow(PersistedRow)
        /\ PersistedRow.chat = req.chatId
        /\ ~persisted.isNull
        /\ persisted.content = Trim(prior.content \o <<"\n", "\n">> \o ModelChunk)
        /\ persisted.id = prior.id
        /\ persisted.title = prior.title

\* the canvas "reply" was appended with a chunk that has whitespace at both
\* ends
C11_Witness ==
  /\ AppendTurnDone
  /\ PriorCanvas.content = <<"reply">>
  /\ ModelChunk = <<"\n", "more", " ">>
  /\ PersistedCanvas.content = <<"reply", "\n", "\n", "\n", "more">>
  /\ PersistedCanvas.id = RandomUUID(1)

\* ids of the markers the conversation held when the request arrived
PriorIds ==
  {safeParseCanvasSystem(PriorMarkers[i].content).id : i \in 1..Len(PriorMarkers)}

\* C12 as claimed: new transition. On a canvas-mode turn with "new" intent,
\* or with no prior marker, the persisted canvas has a fresh id that differs
\* from the id of every earlier marker of the conversation, and its content
\* is equal to the model's output.
C12_NewTransitionRawOutput ==
  NewTurnDone =>
    LET persisted == PersistedCanvas
    IN  /\ IsMarkerRow(PersistedRow)
        /\ persisted.id # <<>>
        /\ persisted.id \notin PriorIds
        /\ persisted.content = ModelChunk

\* C12 amended: new transition. On a canvas-mode turn with "new" intent, or
\* with no prior marker, the persisted canvas has a fresh id that differs
\* from the id of every earlier marker of the conversation, and its content
\* is the model's output with leading and trailing whitespace removed,
\* containing nothing of any earlier canvas.
C12_NewTransitionTrimmed ==
  NewTurnDone =>
    LET persisted == PersistedCanvas
    IN  /\ IsMarkerRow(PersistedRow)
        /\ persisted.id # <<>>
        /\ persisted.id \notin PriorIds
        /\ persisted.content = Trim(ModelChunk)

\* a "new" turn on a conversation that has a canvas, with a chunk that has
\* whitespace at both ends
C12_Witness ==
  /\ NewTurnDone
  /\ req.canvasMode = "new"
  /\ PriorMarkers # <<>>
  /\ PriorCanvas.content # <<>>
  /\ ModelChunk = <<"\n", "more", " ">>
  /\ PersistedCanvas.content = <<"more">>
  /\ PersistedCanvas.id \notin PriorIds

\* C13: across serialized turns canvas content only grows unless "new"
\* intent is given. For every canvas-mode turn without "new" intent the
\* content of the previously current canvas is a prefix of the content the
\* turn persists, also when the prior content exceeds the truncation budget
\* and when the model call failed, and the canvas id is unchanged.
C13_CanvasOnlyGrows ==
  AppendTurnDone =>
    LET prior == PriorCanvas
        persisted == PersistedCanvas
    IN  /\ IsPrefix(prior.content, persisted.content)
        /\ persisted.id = prior.id

\* an append turn on a canvas longer than the budget whose model call failed
C13_Witness ==
  /\ AppendTurnDone
  /\ Len(PriorCanvas.content) > ContextBudget
  /\ result.canvas.content = ApologyMsg
  /\ PersistedCanvas.content = LongContent \o <<"\n", "\n">> \o ApologyMsg

(***************************************************************************)
(* Properties of the canvas helper functions                               *)
(***************************************************************************)
\* C14: parsing the marker emitted for a canvas object with
\* safeParseCanvasSystem gives a canvas with the same id, title and content;
\* a text that does not start with the reserved prefix, or whose payload is
\* not valid JSON with a string content, parses to no canvas
C14_MarkerRoundTrip ==
  /\ (fn = "safeParseCanvasSystem" /\ arg.kind = "canvas") =>
       /\ ~ret.canvas.isNull
       /\ ret.canvas.id = arg.canvas.id
       /\ ret.canvas.title = arg.canvas.title
       /\ ret.canvas.content = arg.canvas.content
  /\ (fn = "safeParseCanvasSystem" /\ arg.kind = "text"
        /\ (arg.text = <<>> \/ arg.text[1] # CANVAS_PREFIX \/ ~arg.wellFormed)) =>
       ret.canvas.isNull

\* a canvas whose title and content hold a backslash, a quote and a newline
\* went through the round trip
C14_Witness ==
  /\ fn = "safeParseCanvasSystem"
  /\ arg.kind = "canvas"
  /\ arg.canvas.title = <<"t", Backslash>>
  /\ arg.canvas.content = <<Quote, "\n">>
  /\ ret.text[1] = CANVAS_PREFIX
  /\ ~ret.canvas.isNull

\* the last n characters of s
LastChars(s, n) == [i \in 1..n |-> s[Len(s) - n + i]]

\* C16: truncateForModel with budget B returns an input of length <= B
\* unchanged; for a longer input it returns a notice stating the original
\* length followed by exactly the last B characters of the input, so the
\* output is at most B plus the notice long and ends with the input's last B
\* characters
C16_Truncation ==
  fn = "truncateForModel" =>
    LET s == arg.str
        B == arg.maxChars
        out == ret.text
        notice == <<"truncated-of", ToString(Len(s)), "\n">>
    IN  /\ Len(s) <= B => out = s
        /\ Len(s) > B =>
             /\ out = notice \o LastChars(s, B)
             /\ Len(out) <= B + Len(notice)
             /\ LastChars(out, B) = LastChars(s, B)

\* an input over its budget was truncated: three characters with budget two,
\* and the 12002-character text with the budget the handler uses
C16_Witness ==
  /\ fn = "truncateForModel"
  /\ \/ arg.str = <<"a", "b", "a">> /\ arg.maxChars = 2
        /\ ret.text = <<"truncated-of", "3", "\n", "b", "a">>
     \/ Len(arg.str) = ContextBudget + 2 /\ arg.maxChars = ContextBudget
        /\ Len(ret.text) = ContextBudget + 3

\* C15: the current canvas of a conversation is the canvas of the most recent
\* canvas marker of its stored history, none if there is no marker; deriving
\* it again with no turn in between, on the server or in the client, gives
\* the same canvas; no variable of the server keeps it between requests
C15_CurrentCanvasDerived ==
  /\ (tpc = "calling" /\ req.outputTarget = "canvas" /\ req.canvasMode # "new") =>
       LET existingCanvas == called[1].existingCanvas
           markers == PriorMarkers
           rows == ChatRows(msgs, req.chatId)
           shown == extractLatestCanvas(rows, Len(rows))
       IN  /\ existingCanvas = ExistingCanvas(msgs, req)
           /\ shown.isNull = existingCanvas.isNull
           /\ IF markers = <<>>
                THEN existingCanvas.isNull
                ELSE /\ ~existingCanvas.isNull
                     /\ MarkerContent(existingCanvas) = markers[Len(markers)].content
                     /\ shown = existingCanvas
  /\ tpc = "idle" => req = NoRequest /\ called = <<>> /\ result = NoResult

\* a turn that continues the canvas found two markers in the history and
\* took the later one
C15_Witness ==
  /\ tpc = "calling"
  /\ req.outputTarget = "canvas"
  /\ req.canvasMode = "append"
  /\ Len(PriorMarkers) = 2
  /\ PriorMarkers[1].content # PriorMarkers[2].content
  /\ MarkerContent(called[1].existingCanvas) = PriorMarkers[2].content

(***************************************************************************)
(* Properties of the context handed to the provider                        *)
(***************************************************************************)
\* the context of the request being handled
Context == called[1].messages

\* the stored rows of the request's conversation that are no canvas marker,
\* in stored order
StoredTurns ==
  SelectSeq(ChatRows(msgs, req.chatId), LAMBDA row : ~IsMarkerRow(row))

\* C17: the turn sequence handed to the provider contains no canvas-marker
\* record, every other stored turn of the conversation is in it in its
\* original order, and besides them it holds at most the current-canvas turn
\* and the rules turn, however many canvas turns came before
C17_NoMarkerInContext ==
  tpc = "calling" =>
    LET context == Context
        turns == StoredTurns
    IN  /\ \A i \in 1..Len(context) :
             ~(context[i].role = "system" /\ context[i].content # <<>>
                 /\ context[i].content[1] = CANVAS_PREFIX)
        /\ Len(context) >= Len(turns)
        /\ \A i \in 1..Len(turns) :
             context[i].role = turns[i].role /\ context[i].content = turns[i].content
        /\ Len(context) - Len(turns) <= 2

\* a third canvas turn: two markers are stored, the context has the three
\* user and two assistant turns, the current canvas and the rules
C17_Witness ==
  /\ tpc = "calling"
  /\ req.outputTarget = "canvas"
  /\ Len(PriorMarkers) = 2
  /\ Len(StoredTurns) = 5
  /\ Len(Context) = 7

\* the stored turns as the provider receives them
StoredTurnsAsMessages ==
  LET turns == StoredTurns
  IN  [i \in 1..Len(turns) |-> Msg(turns[i].role, turns[i].content)]

\* the system turn that surfaces a canvas content, cut to the last
\* ContextBudget characters behind a notice when it is longer
CanvasContentTurn(content) ==
  Msg("system",
      <<"current-canvas:", "\n">>
        \o (IF Len(content) <= ContextBudget THEN content
            ELSE <<"truncated-of", ToString(Len(content)), "\n">>
                   \o LastChars(content, ContextBudget))
        \o <<"\n", "\n", "continue-without-repeating">>)

\* the context assembled for the request when the canvas-content turn is
\* expected or not
ExpectedContext(withContentTurn) ==
  IF req.outputTarget = "canvas"
    THEN StoredTurnsAsMessages
           \o (IF withContentTurn THEN <<CanvasContentTurn(PriorCanvas.content)>> ELSE <<>>)
           \o <<Msg("system", <<"canvas-mode-rules">>)>>
    ELSE StoredTurnsAsMessages

\* C18 as stated: in canvas mode the context ends with the canvas-content
\* turn (truncated to the last 12000 characters) and the rules turn, in chat
\* mode with neither, the content turn being present exactly when the
\* conversation has a current canvas
C18_ContentTurnWheneverCanvasExists ==
  tpc = "calling" => Context = ExpectedContext(PriorMarkers # <<>>)

\* C18: in canvas mode the context ends with the rules turn, preceded by the
\* canvas-content turn (truncated to the last 12000 characters) exactly when
\* the turn does not ask for a new canvas and the most recent marker holds a
\* non-empty content; in chat mode neither turn is appended
C18_ContentTurnWhenContinuing ==
  tpc = "calling" =>
    Context = ExpectedContext(/\ req.canvasMode # "new"
                              /\ PriorMarkers # <<>>
                              /\ PriorCanvas.content # <<>>)

\* a turn continues a canvas of 12002 characters: the context ends with the
\* notice and the last 12000 characters, then the rules
C18_Witness ==
  /\ tpc = "calling"
  /\ req.outputTarget = "canvas"
  /\ req.canvasMode = "append"
  /\ PriorMarkers # <<>>
  /\ Len(PriorCanvas.content) = ContextBudget + 2
  /\ Len(Context) = 5
  /\ Len(Context[4].content) = 2 + 3 + ContextBudget + 3
  /\ Context[5].content = <<"canvas-mode-rules">>

(***************************************************************************)
(* Properties of the file analysis                                         *)
(***************************************************************************)
\* an upload with a file has been analysed
Analysed == fn = "upload" /\ arg.hasFile

\* the steps of the analysis, each with the counters after it
AnalysisLog == ret.analysis.zipState.log

\* text occurs in out
Contains(out, text) ==
  \E i \in 1..(Len(out) - Len(text) + 1) : SubSeq(out, i, i + Len(text) - 1) = text

\* C19: during one analyzeFileBuffer call the quota counters never exceed 200
\* entries and 20 MiB of decompressed bytes, whatever the nesting; crossing
\* either bound appends a diagnostic note and returns the text accumulated
\* so far instead of failing
C19_QuotaNeverExceeded ==
  Analysed =>
    /\ \A i \in 1..Len(AnalysisLog) :
         /\ AnalysisLog[i].files <= 200
         /\ AnalysisLog[i].bytes <= 20 * 1024 * 1024
    /\ \A i \in 1..Len(AnalysisLog) :
         /\ (AnalysisLog[i].ev = "count" /\ AnalysisLog[i].files >= 200 + 1) =>
              /\ ~ret.analysis.thrown
              /\ Contains(ret.analysis.out, <<"[zip-files-over", "200", "stopped]">>)
         /\ (AnalysisLog[i].ev = "buffer" /\ AnalysisLog[i].bytes >= 20 * 1024 * 1024 + 1) =>
              /\ ~ret.analysis.thrown
              /\ Contains(ret.analysis.out, <<"[zip-bytes-over", "20971520", "stopped]">>)

\* the files and entries of a tree with their nesting depth
RECURSIVE EntriesOf(_, _)
EntriesOf(file, depth) ==
  {[path |-> file.path, depth |-> depth, entry |-> file]}
    \cup UNION {EntriesOf(file.files[i], depth + 1) : i \in 1..Len(file.files)}

\* C20: an entry reached at nesting depth 4 is never expanded or decoded,
\* whatever its type: the analysis puts a depth-limit diagnostic for it in
\* the output without raising, nothing inside it is touched, and the
\* enclosing archive goes on with its next entry; an entry reached at depth
\* 3 or less is decoded, and its text is in the output
C20_DepthLimit ==
  Analysed =>
    LET log == AnalysisLog
        out == ret.analysis.out
        thrown == ret.analysis.thrown
        Logged(ev, path) == \E i \in 1..Len(log) : log[i].ev = ev /\ log[i].path = path
        Crossed ==
          \E i \in 1..Len(log) :
            log[i].files > MAX_ZIP_FILES \/ log[i].bytes > MAX_ZIP_TOTAL_BYTES
        deep == {e \in EntriesOf(arg.file, 0) : e.depth >= 3}
    IN  /\ \A i \in 1..Len(log) :
             /\ log[i].depth <= 4
             /\ log[i].ev = "decode" => log[i].depth <= 3
             /\ log[i].ev = "skip" => log[i].depth = 4
        /\ thrown => log[Len(log)].ev = "decode"
        /\ \A e \in deep :
             /\ (e.depth = 4 /\ Logged("buffer", e.path) /\ ~Crossed) =>
                  /\ Logged("skip", e.path)
                  /\ ~Logged("decode", e.path)
                  /\ ~thrown => Contains(out, <<"[depth-exceeded-skipped:">> \o e.path)
             /\ (e.depth = 3 /\ Logged("decode", e.path) /\ ~Crossed /\ ~thrown) =>
                  /\ \A i \in 1..Len(e.entry.files) :
                       e.entry.files[i].type = "File" =>
                         Logged("count", e.entry.files[i].path)
                  /\ e.entry.files = <<>> => Contains(out, e.entry.text)
             /\ (e.depth = 3 /\ Logged("buffer", e.path) /\ ~Crossed) =>
                  Logged("decode", e.path)
             /\ e.depth > 4 => \A i \in 1..Len(log) : log[i].path # e.path

\* an archive nested five deep was analysed: the archive and the text file
\* at depth 4 were skipped one after the other, the text file at depth 3 was
\* decoded afterwards, and the analysis returned
C20_Witness ==
  /\ Analysed
  /\ arg.file.path = <<"z", "5", ".zip">>
  /\ ret.status = 200
  /\ \E i, j, k \in 1..Len(AnalysisLog) :
       /\ i < j /\ j < k
       /\ AnalysisLog[i].ev = "skip" /\ AnalysisLog[i].path = <<"z", "1", ".zip">>
       /\ AnalysisLog[j].ev = "skip" /\ AnalysisLog[j].path = <<"s", "2", ".txt">>
       /\ AnalysisLog[k].ev = "decode" /\ AnalysisLog[k].path = <<"s", "3", ".txt">>
       /\ AnalysisLog[k].depth = 3
  /\ Contains(ret.analysis.out, <<"[depth-exceeded-skipped:", "z", "1", ".zip", "]">>)

\* C21: the analysis of an uploaded file never fails: a failure at any single
\* entry (corrupt archive, unreadable PDF, unreadable spreadsheet, failed
\* image call) becomes a diagnostic in the returned text, analyzeFileBuffer
\* returns, and the upload is answered with the analysis
C21_ExtractionNeverFails ==
  Analysed => ~ret.analysis.thrown /\ ret.status = 200

\* the tree with every vision call succeeding
RECURSIVE VisionSucceeding(_)
VisionSucceeding(file) ==
  [file EXCEPT
     !.ok = IF file.files = <<>> /\ Len(file.path) >= 2
               /\ file.path[Len(file.path)] \in {".jpg", ".jpeg", ".png", ".PNG", ".webp"}
              THEN TRUE ELSE @,
     !.files = [i \in 1..Len(file.files) |-> VisionSucceeding(file.files[i])]]

\* an image entry whose vision call fails
IsFailedImage(file) == ~file.ok /\ VisionSucceeding(file).ok

\* C22: when the vision call for an image entry fails, the entry's block in
\* the output carries a failure notice, the entries after it in the archive
\* are still counted and analysed, and both quota counters end as they do
\* when the call succeeds
C22_VisionFailureInline ==
  Analysed =>
    LET log == AnalysisLog
        out == ret.analysis.out
        Logged(ev, path) == \E i \in 1..Len(log) : log[i].ev = ev /\ log[i].path = path
        entries == EntriesOf(arg.file, 0)
        succeeding == analyzeFileBuffer(VisionSucceeding(arg.file), 0, NewZipState)
    IN  (\E e \in entries : IsFailedImage(e.entry)) =>
          /\ \A e \in entries :
               (IsFailedImage(e.entry) /\ Logged("decode", e.path)) =>
                 /\ ~ret.analysis.thrown
                 /\ Contains(out, <<"[image-file:">> \o e.path
                                    \o <<"]", "\n", "[image-failed:">>)
          /\ \A z \in entries :
               Logged("decode", z.path) =>
                 \A i, j \in 1..Len(z.entry.files) :
                   (i < j /\ IsFailedImage(z.entry.files[i])
                      /\ z.entry.files[j].type = "File") =>
                     /\ Logged("count", z.entry.files[j].path)
                     /\ Logged("decode", z.entry.files[j].path)
          /\ ret.analysis.zipState.files = succeeding.zipState.files
          /\ ret.analysis.zipState.bytes = succeeding.zipState.bytes

\* an archive whose second entry is an image the vision call failed on: the
\* notice is in the output, followed by the text of the third entry
C22_Witness ==
  /\ Analysed
  /\ arg.file.path = <<"mixed", ".zip">>
  /\ IsFailedImage(arg.file.files[2])
  /\ ret.status = 200
  /\ Contains(ret.analysis.out,
              <<"[image-file:", "m2", ".png", "]", "\n", "[image-failed:">>)
  /\ Contains(ret.analysis.out, <<"[text-file:", "m3", ".md", "]", "\n", "m3", "\n">>)
  /\ ret.analysis.zipState.files = 3
  /\ ret.analysis.zipState.bytes = 6

\* the text an entry contributes to the output of an analysis that crosses no
\* limit and meets no failure: its block, or for an archive its header
\* followed, for each file entry in directory order, by a header with the
\* entry's path and the entry's own text
RECURSIVE ExpectedText(_)
ExpectedText(file) ==
  LET name == file.path
      ext == IF Len(name) >= 2 THEN name[Len(name)] ELSE ""
      RECURSIVE Listing(_, _)
      Listing(lo, hi) ==
        IF lo > hi THEN <<>>
        ELSE IF lo = hi
          THEN (IF file.files[lo].type = "File"
                  THEN <<"\n", "---", "\n", "[">> \o file.files[lo].path \o <<"]", "\n">>
                         \o ExpectedText(file.files[lo])
                  ELSE <<>>)
        ELSE Listing(lo, (lo + hi) \div 2) \o Listing((lo + hi) \div 2 + 1, hi)
      label == CASE ext \in {".txt", ".TXT", ".md", ".json", ".log", ".csv"} -> "[text-file:"
                 [] ext = ".pdf" -> "[pdf-file:"
                 [] ext = ".xlsx" -> "[excel-file:"
                 [] ext \in {".jpg", ".jpeg", ".png", ".PNG", ".webp"} -> "[image-file:"
                 [] OTHER -> "[file:"
  IN  IF ext \in {".zip", ".ZIP"}
        THEN <<"\n", "[zip:">> \o name \o <<"]", "\n">> \o Listing(1, Len(file.files))
        ELSE <<"\n", label>> \o name \o <<"]", "\n">> \o file.text \o <<"\n">>

\* the analysis stayed within the quota and the depth limit and met no
\* unreadable entry
WithinLimits ==
  /\ Analysed
  /\ ~ret.analysis.thrown
  /\ \A i \in 1..Len(AnalysisLog) :
       /\ AnalysisLog[i].ev # "skip"
       /\ AnalysisLog[i].files <= MAX_ZIP_FILES
       /\ AnalysisLog[i].bytes <= MAX_ZIP_TOTAL_BYTES
  /\ \A e \in EntriesOf(arg.file, 0) : e.entry.ok

\* C23: for an archive within quota and depth limits the output holds the
\* text block of every contained file entry, those of a nested archive at
\* the place of the nested archive, each after a header with the entry's
\* path, in the order of the directory; directory entries add nothing
C23_OutputInDirectoryOrder ==
  WithinLimits => ret.analysis.out = ExpectedText(arg.file)

\* the archive of three text files, a directory and a nested archive
C23_Witness ==
  /\ WithinLimits
  /\ arg.file.path = <<"docs", ".zip">>
  /\ ret.analysis.out =
       <<"\n", "[zip:", "docs", ".zip", "]", "\n",
         "\n", "---", "\n", "[", "a", ".txt", "]", "\n",
         "\n", "[text-file:", "a", ".txt", "]", "\n", "text-a", "\n",
         "\n", "---", "\n", "[", "b", ".md", "]", "\n",
         "\n", "[text-file:", "b", ".md", "]", "\n", "text-b", "\n",
         "\n", "---", "\n", "[", "in", ".zip", "]", "\n",
         "\n", "[zip:", "in", ".zip", "]", "\n",
         "\n", "---", "\n", "[", "d", ".csv", "]", "\n",
         "\n", "[text-file:", "d", ".csv", "]", "\n", "text-d", "\n",
         "\n", "---", "\n", "[", "p", ".png", "]", "\n",
         "\n", "[image-file:", "p", ".png", "]", "\n", "seen-p", "\n",
         "\n", "---", "\n", "[", "c", ".txt", "]", "\n",
         "\n", "[text-file:", "c", ".txt", "]", "\n", "text-c", "\n">>

(***************************************************************************)
(* Properties of concurrent uploads and turns                              *)
(***************************************************************************)
\* the counters object of uploader p's call
CountersOf(p) == uploads.zipStates[uploads.calls[p].zipState]

\* no entry of uploader p's call has been counted yet
JustStarted(p) ==
  LET call == uploads.calls[p]
  IN  /\ call.pc = "running"
      /\ Len(call.frames) = 1
      /\ Head(call.frames).i = 1
      /\ Head(call.frames).stage = "count"
      /\ Head(call.frames).depth = 0

\* C24: the quota counters belong to one top-level analysis: every upload
\* starts with both at zero, all loops of its tree count on the same object,
\* so that a finished analysis has the counters and the text of the same
\* analysis run alone, and two uploads analysed concurrently hold different
\* counters objects
C24_CountersPerUpload ==
  /\ \A p \in Uploaders :
       LET call == uploads.calls[p]
           alone == analyzeFileBuffer(call.file, 0, NewZipState)
       IN  /\ JustStarted(p) => CountersOf(p) = [files |-> 0, bytes |-> 0]
           /\ call.pc = "failed" => alone.thrown
           /\ call.pc = "done" =>
                /\ ~alone.thrown
                /\ call.out = alone.out
                /\ CountersOf(p).files = alone.zipState.files
                /\ CountersOf(p).bytes = alone.zipState.bytes
  /\ \A p, q \in Uploaders :
       (p # q /\ uploads.calls[p].pc = "running" /\ uploads.calls[q].pc = "running") =>
         uploads.calls[p].zipState # uploads.calls[q].zipState

\* uploader 1 has finished an archive with a nested archive that crossed the
\* byte quota while uploader 2 is in the nested archive of another one, its
\* own counters at four entries
C24_Witness ==
  /\ uploads.calls[1].pc = "done"
  /\ uploads.calls[1].file.path = <<"outerb", ".zip">>
  /\ CountersOf(1).files = 4
  /\ CountersOf(1).bytes > MAX_ZIP_TOTAL_BYTES
  /\ uploads.calls[2].pc = "running"
  /\ uploads.calls[2].file.path = <<"docs", ".zip">>
  /\ Len(uploads.calls[2].frames) = 2
  /\ CountersOf(2).files = 4
  /\ uploads.started = 3

(***************************************************************************)
(* Properties of the turn                                                  *)
(***************************************************************************)
\* C29: a message request rejected at request time (invalid conversation id,
\* empty content without attachment, conversation not owned by the caller,
\* attachment missing or bound to another conversation) inserts no message,
\* binds no attachment, leaves the title alone and calls no provider
C29_RejectLeavesStateUnchanged ==
  [][tpc' = "rejected" =>
       /\ msgs' = msgs
       /\ files' = files
       /\ sessions' = sessions
       /\ uuid' = uuid
       /\ called' = <<>>
       /\ res'.status \in {400, 404}]_vars

\* after an accepted turn, a request naming a file bound to conversation 3 is
\* rejected for conversation 1; the stored rows are those of the first turn
C29_Witness ==
  /\ tpc = "rejected"
  /\ res.status = 400
  /\ req.chatId = 1
  /\ req.content = <<"q">>
  /\ req.fileIds = {1}
  /\ files[1].chat = 3
  /\ Len(msgs) = 2
  /\ called = <<>>


\* the rows the turn in progress has stored so far
TurnRows == SubSeq(msgs, len0 + 1, Len(msgs))

\* the rows stored before the model call: the user message, then one
\* attachment row per newly bound file, none of them a marker
StoredBeforeCall(rows) ==
  /\ rows # <<>>
  /\ rows[1].role = "user"
  /\ \A i \in 2..Len(rows) : rows[i].role = "system" /\ ~IsMarkerRow(rows[i])

\* C25: the steps of one turn run in order.  While the model call is
\* outstanding the provider has been invoked exactly once, with the context
\* assembled from the stored user message and attachment rows, and the turn
\* has stored neither a marker nor an assistant message; once the turn is
\* done the rows stored after the call are, in canvas mode, the marker
\* followed by the assistant message, and in chat mode the assistant message
\* alone, still for one invocation of the provider.
C25_StepsInOrder ==
  /\ tpc = "calling" =>
       /\ Len(called) = 1
       /\ StoredBeforeCall(TurnRows)
       /\ called[1].messages = MessagesForModel(msgs, req)
  /\ tpc = "done" =>
       LET n == Len(TurnRows)
           k == IF req.outputTarget = "canvas" THEN 2 ELSE 1
       IN  /\ Len(called) = 1
           /\ n > k
           /\ StoredBeforeCall(SubSeq(TurnRows, 1, n - k))
           /\ TurnRows[n].role = "assistant"
           /\ req.outputTarget = "canvas" => IsMarkerRow(TurnRows[n - 1])

\* a canvas turn with an attachment is done: user message, attachment row,
\* marker, assistant message
C25_Witness ==
  /\ tpc = "done"
  /\ req.outputTarget = "canvas"
  /\ req.fileIds = {1}
  /\ Len(TurnRows) = 4
  /\ TurnRows[2].role = "system" /\ ~IsMarkerRow(TurnRows[2])
  /\ IsMarkerRow(TurnRows[3])
  /\ TurnRows[4].role = "assistant"


\* the history of the request's conversation as it is now
ChatRowsNow == ChatRows(msgs, req.chatId)

\* C30: a completed canvas-mode turn has added exactly one canvas marker to
\* the history of its conversation and a completed chat-mode turn none, so
\* after a chat-mode turn the canvas derived from the history (the parsed
\* most recent marker: id, title, content), by the server and by the client,
\* is the one derived before it.
C30_OneMarkerPerCanvasTurn ==
  tpc = "done" =>
    /\ Len(SelectSeq(ChatRowsNow, IsMarkerRow))
         = Len(PriorMarkers) + (IF req.outputTarget = "canvas" THEN 1 ELSE 0)
    /\ req.outputTarget = "chat" =>
         /\ LatestCanvas(ChatRowsNow, Len(ChatRowsNow))
              = LatestCanvas(PriorRows, Len(PriorRows))
         /\ extractLatestCanvas(ChatRowsNow, Len(ChatRowsNow))
              = extractLatestCanvas(PriorRows, Len(PriorRows))

\* a chat-mode turn is done on a conversation that has a canvas, after a
\* canvas-mode turn that added its one marker
C30_Witness ==
  /\ tpc = "done"
  /\ req.outputTarget = "chat"
  /\ Len(PriorMarkers) = 1
  /\ ~LatestCanvas(ChatRowsNow, Len(ChatRowsNow)).isNull
  /\ LatestCanvas(ChatRowsNow, Len(ChatRowsNow)).content # <<>>
  /\ msgs[Len(msgs)].role = "assistant"


\* the model call of the turn failed: the router returned its soft-failure
\* value
CallFailed == result = SoftFailure(req.outputTarget, called[1].options.canvasTitle)

\* the canvas content a failed canvas-mode call leaves: the apology as the
\* chunk merged into the canvas the turn started from
ApologyCanvasContent ==
  LET existingCanvas == called[1].existingCanvas
  IN  IF req.canvasMode # "new" /\ ~existingCanvas.isNull /\ existingCanvas.content # <<>>
        THEN Trim(existingCanvas.content \o <<"\n", "\n">> \o ApologyMsg)
        ELSE ApologyMsg

\* an earlier turn of the conversation ended with the apology as its
\* assistant message
FailedBefore ==
  \E i \in 1..Len(PriorRows) :
    PriorRows[i].role = "assistant" /\ PriorRows[i].content = ApologyMsg

\* C27: an accepted turn whose model call failed completes like any other:
\* the response is a success, the turn has stored exactly one assistant
\* message, as its last row; in chat mode the apology is the content of that
\* message and of the response, in canvas mode the apology is the chunk
\* merged into the canvas that is stored and returned.  A later turn on the
\* conversation is accepted and carries the apology in its context as an
\* ordinary assistant message.
C27_FailedCallCompletes ==
  /\ tpc = "done" /\ CallFailed =>
       /\ res.status = 200
       /\ Len(SelectSeq(TurnRows, LAMBDA row : row.role = "assistant")) = 1
       /\ msgs[Len(msgs)].role = "assistant"
       /\ msgs[Len(msgs)].content = res.content
       /\ req.outputTarget = "chat" =>
            /\ res.content = ApologyMsg
            /\ res.canvas.isNull
       /\ req.outputTarget = "canvas" =>
            /\ res.content = WrittenToCanvas
            /\ res.canvas.content = ApologyCanvasContent
            /\ PersistedCanvas.content = ApologyCanvasContent
  /\ tpc = "calling" /\ FailedBefore =>
       \E i \in 1..Len(called[1].messages) :
         called[1].messages[i] = Msg("assistant", ApologyMsg)

\* a canvas-mode turn fails on a conversation whose canvas has content,
\* after a chat-mode turn that failed too
C27_Witness ==
  /\ tpc = "done"
  /\ CallFailed
  /\ req.outputTarget = "canvas"
  /\ req.canvasMode = "append"
  /\ FailedBefore
  /\ ~called[1].existingCanvas.isNull
  /\ PersistedCanvas.content # ApologyMsg
  /\ PersistedCanvas.content = ApologyCanvasContent


(***************************************************************************)
(* Properties of callModelWithConfig's return value                        *)
(***************************************************************************)
\* the call is over and its adapter returned a value
CallSucceeded == cpc = "done" /\ raw.kind \in {"string", "object"}

RaceCanvas == LatestCanvas(ChatRows(msgs, 1), Len(ChatRows(msgs, 1)))

\* the chunks of the turns whose marker is stored, in order of arrival
MarkedChunks ==
  LET marked == SelectSeq(handlers.turns, LAMBDA t : t.marked)
  IN  [i \in 1..Len(marked) |-> marked[i].chunk]

\* chunks joined in order by a blank line: the first chunk that is not blank
\* without the whitespace around it, every later one that is not blank behind
\* the separator and without the whitespace after it
RECURSIVE JoinedChunks(_, _)
JoinedChunks(chunks, n) ==
  IF n = 0 THEN <<>>
  ELSE LET before == JoinedChunks(chunks, n - 1)
       IN  IF Trim(chunks[n]) = <<>> THEN before
           ELSE IF before = <<>> THEN Trim(chunks[n])
           ELSE before \o <<"\n", "\n">> \o TrimRight(chunks[n])

\* the chunks of the first n accepted turns
TurnChunks(n) == [i \in 1..n |-> handlers.turns[i].chunk]

\* the canvas of the i-th marker stored for conversation 1
MarkerOf(i) ==
  safeParseCanvasSystem(SelectSeq(ChatRows(msgs, 1), IsMarkerRow)[i].content)

\* none of the first k accepted turns had another turn of the conversation
\* in progress
SerialUpTo(k) == \A i \in 1..k : ~handlers.turns[i].overlapped

Serialized == SerialUpTo(Len(handlers.turns))

\* C26: when the turns on a conversation are serialized, the canvas after n
\* append turns holds the chunks of all n turns in turn order, separated by
\* blank lines: the marker stored by the k-th of k serialized turns holds
\* chunks 1..k, and while every turn so far was serialized the canvas derived
\* from the history is the one of the last marker.  (That overlapping turns
\* can lose a chunk is the reachable state C26_Witness.)
C26_SerializedTurnsKeepAllChunks ==
  /\ \A k \in 1..Len(handlers.turns) :
       SerialUpTo(k) /\ handlers.turns[k].marked =>
         MarkerOf(k).content = JoinedChunks(TurnChunks(k), k)
  /\ Serialized => RaceCanvas.content = JoinedChunks(MarkedChunks, Len(MarkedChunks))

\* after one serialized append turn whose chunk the canvas holds, two append
\* turns overlapped and both read that canvas; all are done, and the canvas
\* derived from the history holds the chunk of the turn whose marker was
\* stored last but not the other turn's chunk
C26_Witness ==
  /\ Len(handlers.turns) = 3
  /\ \A k \in 1..3 : handlers.turns[k].done
  /\ ~handlers.turns[1].overlapped
  /\ handlers.turns[2].overlapped /\ handlers.turns[3].overlapped
  /\ handlers.turns[1].chunk = <<"reply">>
  /\ handlers.turns[2].chunk = ApologyMsg
  /\ handlers.turns[3].chunk = <<"reply">>
  /\ MarkerOf(1).content = <<"reply">>
  /\ RaceCanvas.content = <<"reply", "\n", "\n", "reply">>
  /\ Len(SelectSeq(msgs, IsMarkerRow)) = 3

\* serialized append turns are all done and the canvas holds all their chunks
SerialTurnsDone ==
  /\ Serialized
  /\ Len(handlers.turns) = MaxRaceTurns
  /\ \A k \in 1..MaxRaceTurns :
       handlers.turns[k].done /\ Trim(handlers.turns[k].chunk) # <<>>
  /\ RaceCanvas.content = JoinedChunks(MarkedChunks, MaxRaceTurns)
  /\ Len(RaceCanvas.content) > 2 * MaxRaceTurns - 2


(***************************************************************************)
(* Properties of a model call over the transport                           *)
(***************************************************************************)
\* every attempt the transport is allowed was made and each was answered
\* with a retryable status
AllAttemptsRetryable ==
  /\ Len(net) = AdapterCfg.retries + 1
  /\ \A i \in 1..Len(net) :
       net[i].kind = "status" /\ isRetryableStatus(net[i].status)

\* C31: one model call makes at most retries+1 = 3 outbound attempts, the
\* adapter calling the transport once.  When all three attempts are answered
\* with a retryable status the transport returns the last response instead of
\* throwing, the adapter throws on the non-2xx status, and the router returns
\* its soft-failure value.
C31_RetriesExhaustedIsSoftFailure ==
  /\ cpc # "idle" => Len(net) <= DefaultRetries + 1
  /\ cpc = "fetching" /\ AllAttemptsRetryable =>
       /\ fpc = "returned"
       /\ fres = net[Len(net)].status
       /\ ~ResOk(fres)
  /\ cpc = "done" /\ AllAttemptsRetryable =>
       /\ fpc = "returned"
       /\ raw = Thrown
       /\ callRes = SoftFailure(OutputTarget(options), CanvasTitle(options))

\* a canvas-mode call whose three attempts were all answered 500, with a
\* body that parses, ended with the apology as canvas content
C31_Witness ==
  /\ cpc = "done"
  /\ AllAttemptsRetryable
  /\ Len(net) = 3
  /\ resBody.valid
  /\ OutputTarget(options) = "canvas"
  /\ callRes.kind = "object"
  /\ callRes.canvas.content = ApologyMsg


(***************************************************************************)
(* Properties of the analysis after a quota bound was crossed              *)
(***************************************************************************)
\* step i of the analysis crossed a quota bound: the entry count went over
\* 200, or the byte count over 20 MiB
IsCrossing(i) ==
  \/ AnalysisLog[i].ev = "count" /\ AnalysisLog[i].files > 200
  \/ AnalysisLog[i].ev = "buffer" /\ AnalysisLog[i].bytes > 20 * 1024 * 1024

Crossings == {i \in 1..Len(AnalysisLog) : IsCrossing(i)}

FirstCrossing == CHOOSE i \in Crossings : \A j \in Crossings : i <= j

\* the line a decoded entry's text makes in the output
TextLine(text) == <<"]", "\n">> \o text \o <<"\n">>

\* occurrences of a one-token mark in out
Occurrences(out, mark) == Cardinality({i \in 1..Len(out) : out[i] = mark})

\* the entries of the uploaded tree that are files with a text of their own
TextEntries ==
  {e \in EntriesOf(arg.file, 0) :
     e.entry.type = "File" /\ ExtName(e.entry.path) # ".zip" /\ e.entry.text # <<>>}

\* the steps at which an entry's decoder ran
DecodedAt(path) ==
  {i \in 1..Len(AnalysisLog) :
     AnalysisLog[i].ev = "decode" /\ AnalysisLog[i].path = path}

\* C32: once a quota bound was crossed in an archive tree, no later entry in
\* any branch of the tree is decoded or adds text: every later step is an
\* enclosing archive counting (and buffering) its next entry and stopping
\* there, each in a shallower archive than the one before, and each stop has
\* put its own note in the output; the text of every entry decoded before
\* the crossing is in the output, the text of every other entry is not.
C32_NothingAfterQuotaCrossing ==
  (Analysed /\ ~ret.analysis.thrown /\ Crossings # {}) =>
    LET c == FirstCrossing
        n == Len(AnalysisLog)
        out == ret.analysis.out
    IN  /\ \A j \in (c + 1)..n :
             /\ AnalysisLog[j].ev \in {"count", "buffer"}
             /\ AnalysisLog[j].depth < AnalysisLog[c].depth
             /\ IsCrossing(j) \/ (j < n /\ AnalysisLog[j].ev = "count"
                                    /\ AnalysisLog[j + 1].ev = "buffer"
                                    /\ AnalysisLog[j + 1].path = AnalysisLog[j].path
                                    /\ IsCrossing(j + 1))
        /\ \A i, j \in Crossings : i < j => AnalysisLog[j].depth < AnalysisLog[i].depth
        /\ Occurrences(out, "[zip-files-over") + Occurrences(out, "[zip-bytes-over")
             = Cardinality(Crossings)
        /\ \A e \in TextEntries :
             Contains(out, TextLine(e.entry.text))
               <=> \E i \in DecodedAt(e.entry.path) : i < c

\* the byte bound was crossed two archives deep: the innermost archive and
\* both archives around it stopped with a note each, the texts decoded before
\* the crossing are kept, no later text was added
C32_Witness ==
  /\ Analysed
  /\ ~ret.analysis.thrown
  /\ arg.file.path = <<"deepb", ".zip">>
  /\ Cardinality(Crossings) = 3
  /\ Occurrences(ret.analysis.out, "[zip-bytes-over") = 3
  /\ Contains(ret.analysis.out, TextLine(<<"l1">>))
  /\ ~Contains(ret.analysis.out, TextLine(<<"m2">>))
  /\ ~Contains(ret.analysis.out, TextLine(<<"t2">>))


\* the contents of the turns a wire request carries, in order
WireContents == [i \in 1..Len(wire.turns) |-> wire.turns[i].content]

\* C37: every turn of the assembled context is in the wire request of the
\* adapter that serves the call, in the assembled order: as the lines of the
\* input text (OpenAI, behind the canvas hint in canvas mode), as the
\* messages array (DeepSeek), as the contents array (Gemini).
C37_ContextReachesWire ==
  (cpc = "fetching" /\ wire.provider # "none") =>
    /\ wire.provider = "openai" =>
         wire.input \in {JoinLines(messages, 1),
                         JoinLines(<<Msg("system", CANVAS_SYSTEM_HINT)>> \o messages, 1)}
    /\ wire.provider = "deepseek" => wire.turns = messages
    /\ wire.provider = "gemini" =>
         WireContents = [i \in 1..Len(messages) |-> messages[i].content]


(***************************************************************************)
(* The message handler and the rename handler, query by query              *)
(***************************************************************************)
\* turns started in one run
MaxStepTurns == 2

\* the conversations of user 1
StepChats == {1, 3}

\* the conversation rename requests are made for
RenameChats == {1}

\* titles a rename request carries
RenameTitles == {<<" ", "plan", " ">>, DefaultTitle}

\* requests of user 1 on their two conversations, with and without file 1
StepRequests ==
  [user : {1},
   chatId : StepChats,
   content : {<<"q">>},
   modelId : {"deepseek-chat"},
   depthMode : {FALSE},
   outputTarget : {"chat"},
   canvasMode : {"append"},
   fileIds : {{}, {1}}]

\* the uploads of user 1, bound to no conversation yet
UnboundFiles ==
  [f \in FileIds |->
     [user |-> 1, chat |-> 0, name |-> <<"f", ToString(f)>>,
      analysis |-> <<"text-of", ToString(f)>>]]

\* a call of the message handler: where it is, its request, the rows of
\* uploaded_files as it read them (fileRows), the title it read (curTitle),
\* and the status of its last response
NoStepCall ==
  [pc |-> "idle", req |-> NoRequest, fileRows |-> UnboundFiles, curTitle |-> <<>>,
   status |-> 0]

\* the calls, the number of turns started, and for every conversation the
\* title of the last rename (empty: never renamed)
NoSteppers ==
  [calls |-> [h \in Handlers |-> NoStepCall],
   count |-> 0,
   renamed |-> [c \in RenameChats |-> <<>>]]

\* user 1 owns conversations 1 and 3 and two uploaded files, not yet bound
InitStep ==
  /\ fpc = "idle"
  /\ cfg = AdapterCfg
  /\ attempt = 0
  /\ lastErr = NoErr
  /\ net = <<>>
  /\ delays = <<>>
  /\ aborted = {}
  /\ fres = 0
  /\ cpc = "idle"
  /\ config = ForeignConfig
  /\ messages = <<>>
  /\ options = NoOptions
  /\ env = NoEnv
  /\ wire = NoWire
  /\ resBody = InvalidBody
  /\ raw = NoResult
  /\ callRes = NoResult
  /\ msgs = <<>>
  /\ sessions = [c \in Chats \cup StepChats |->
                   [user |-> IF c = 2 THEN 2 ELSE 1, title |-> DefaultTitle]]
  /\ files = UnboundFiles
  /\ uuid = 0
  /\ tpc = "idle"
  /\ req = NoRequest
  /\ called = <<>>
  /\ len0 = 0
  /\ result = NoResult
  /\ res = NoResponse
  /\ fn = "none"
  /\ arg = NoArg
  /\ ret = NoRet
  /\ uploads = NoUploads
  /\ handlers = NoSteppers
  /\ client = NoClient

\* a request fails validation, the attachment check included: the error
\* middleware answers
StepReject(h) ==
  /\ handlers.calls[h].pc = "idle"
  /\ handlers.count < MaxStepTurns
  /\ \E r \in StepRequests :
       /\ RejectStatus(sessions, files, r) # 0
       /\ handlers' = [handlers EXCEPT
                         !.count = @ + 1,
                         !.calls[h] = [NoStepCall EXCEPT
                                         !.status = RejectStatus(sessions, files, r)]]
  /\ UNCHANGED <<dbVars, fetchVars, callVars, turnVars, fnVars, uploads, client>>

\* the request passes validation; the SELECT on uploaded_files has given the
\* handler its fileRows
StepCheck(h) ==
  /\ handlers.calls[h].pc = "idle"
  /\ handlers.count < MaxStepTurns
  /\ \E r \in StepRequests :
       /\ RejectStatus(sessions, files, r) = 0
       /\ handlers' = [handlers EXCEPT
                         !.count = @ + 1,
                         !.calls[h] = [NoStepCall EXCEPT
                                         !.pc = "checked", !.req = r,
                                         !.fileRows = files]]
  /\ UNCHANGED <<dbVars, fetchVars, callVars, turnVars, fnVars, uploads, client>>

\* step 1: INSERT of the user message
StepUser(h) ==
  /\ handlers.calls[h].pc = "checked"
  /\ LET call == handlers.calls[h]
     IN  msgs' = Append(msgs, Row(call.req.chatId, "user",
                                   TextContent(UserContentToSave(call.fileRows, call.req))))
  /\ handlers' = [handlers EXCEPT !.calls[h].pc = "stored"]
  /\ UNCHANGED <<sessions, files, uuid, fetchVars, callVars, turnVars, fnVars, uploads, client>>

\* where the handler goes on after the auto-title step: to the attachment
\* rows if the request has any, else to the context
AfterTitle(call) ==
  IF FileRowIds(call.fileRows, call.req) # {} THEN "titled" ELSE "bound"

\* step 1.05, first query: SELECT title
StepTitleRead(h) ==
  /\ handlers.calls[h].pc = "stored"
  /\ handlers' = [handlers EXCEPT
                    !.calls[h].pc = "read",
                    !.calls[h].curTitle = Trim(sessions[handlers.calls[h].req.chatId].title)]
  /\ UNCHANGED <<dbVars, fetchVars, callVars, turnVars, fnVars, uploads, client>>

\* step 1.05, the COUNT of user messages and the UPDATE of the title
StepTitleWrite(h) ==
  /\ handlers.calls[h].pc = "read"
  /\ LET call == handlers.calls[h]
         r == call.req
         userMsgCount ==
           Len(SelectSeq(ChatRows(msgs, r.chatId), LAMBDA row : row.role = "user"))
     IN  /\ sessions' =
              IF userMsgCount = 1 /\ (call.curTitle = <<>> \/ call.curTitle = DefaultTitle)
                THEN [sessions EXCEPT ![r.chatId].title = AutoTitle(call.fileRows, r)]
                ELSE sessions
         /\ handlers' = [handlers EXCEPT !.calls[h].pc = AfterTitle(call)]
  /\ UNCHANGED <<msgs, files, uuid, fetchVars, callVars, turnVars, fnVars, uploads, client>>

\* step 1.05 throws at one of its queries: the catch block logs the error
\* and the handler goes on
StepTitleFails(h) ==
  /\ handlers.calls[h].pc \in {"stored", "read"}
  /\ handlers' = [handlers EXCEPT !.calls[h].pc = AfterTitle(handlers.calls[h])]
  /\ UNCHANGED <<dbVars, fetchVars, callVars, turnVars, fnVars, uploads, client>>

\* step 1.1, the loop: an analysis row for every row of fileRows that was
\* unbound when it was read
StepAttach(h) ==
  /\ handlers.calls[h].pc = "titled"
  /\ LET call == handlers.calls[h]
     IN  msgs' = msgs \o AttachmentRows(call.fileRows, call.req.chatId,
                                        SortedIds(FileRowIds(call.fileRows, call.req)))
  /\ handlers' = [handlers EXCEPT !.calls[h].pc = "attached"]
  /\ UNCHANGED <<sessions, files, uuid, fetchVars, callVars, turnVars, fnVars, uploads, client>>

\* step 1.1, the UPDATE: the rows still unbound get the conversation
StepBind(h) ==
  /\ handlers.calls[h].pc = "attached"
  /\ LET call == handlers.calls[h]
     IN  files' = [f \in DOMAIN files |->
                     IF f \in FileRowIds(call.fileRows, call.req) /\ files[f].chat = 0
                       THEN [files[f] EXCEPT !.chat = call.req.chatId]
                       ELSE files[f]]
  /\ handlers' = [handlers EXCEPT !.calls[h].pc = "bound"]
  /\ UNCHANGED <<msgs, sessions, uuid, fetchVars, callVars, turnVars, fnVars, uploads, client>>

\* steps 2 to 5: the context is read, the model called, the assistant
\* message stored and the response sent
StepReply(h) ==
  /\ handlers.calls[h].pc = "bound"
  /\ LET r == handlers.calls[h].req
         existingCanvas == ExistingCanvas(msgs, r)
     IN  \E out \in AdapterOutcomes(LookupConfig(r.modelId).config) :
           LET returned == RouterResult(TurnOptions(r, TurnCanvasTitle(existingCanvas)), out)
           IN  msgs' = msgs \o RowsOfTurn(r.chatId, r.outputTarget, NullServerCanvas,
                                          returned.text)
  /\ handlers' = [handlers EXCEPT !.calls[h] = [NoStepCall EXCEPT !.status = 200]]
  /\ UNCHANGED <<sessions, files, uuid, fetchVars, callVars, turnVars, fnVars, uploads, client>>

\* POST /api/chats/:id/rename by the owner of the conversation
Rename ==
  /\ \E c \in RenameChats, title \in RenameTitles :
       /\ Trim(title) # <<>>
       /\ sessions[c].user = 1
       /\ sessions' = [sessions EXCEPT ![c].title = Trim(title)]
       /\ handlers' = [handlers EXCEPT !.renamed[c] = Trim(title)]
  /\ UNCHANGED <<msgs, files, uuid, fetchVars, callVars, turnVars, fnVars, uploads, client>>

NextStep ==
  \/ \E h \in Handlers :
       \/ StepReject(h)
       \/ StepCheck(h)
       \/ StepUser(h)
       \/ StepTitleRead(h)
       \/ StepTitleWrite(h)
       \/ StepTitleFails(h)
       \/ StepAttach(h)
       \/ StepBind(h)
       \/ StepReply(h)
  \/ Rename

\* up to MaxStepTurns message requests of one user served by two calls of
\* the handler whose queries may interleave, and renames between them
SpecStep == InitStep /\ [][NextStep]_vars

(***************************************************************************)
(* Claims about the client                                                 *)
(***************************************************************************)
\* C33: while one message send is in flight no step of the user, on the send
\* button or the Enter key, makes a second POST to the conversation: every
\* POST was made with no other POST awaiting its response.
C33_NoPostWhileSending ==
  \A i \in 1..Len(client.calls) : client.calls[i].inFlight = 0

\* the canvas the server derives from the stored history of the
\* conversation, as the client shows a canvas
DerivedCanvas ==
  LET rows == ChatRows(msgs, 1)
      c == LatestCanvas(rows, Len(rows))
  IN  IF c.isNull THEN NullServerCanvas ELSE ShownCanvas(c)

\* no send of the component awaits its response and the handler is between
\* turns
ClientQuiet == client.calls = <<>> /\ tpc = "idle"

\* C35: once every send has completed, and after any reload, the canvas the
\* client holds is the canvas the server derives from the stored history:
\* same id, title and content, also when the content is empty.
C35_ClientCanvasIsServerCanvas ==
  ClientQuiet => client.canvas = DerivedCanvas

\* C36 as stated: a canvas-mode POST carries "new" exactly when its text
\* starts with a command or the new-canvas button was clicked since the last
\* canvas-mode POST, and "append" otherwise; a chat-mode POST carries no
\* canvas mode.
C36_OneShotPerCanvasPost ==
  \A i \in 1..Len(client.calls) :
    LET c == client.calls[i]
    IN  IF c.req.outputTarget = "canvas"
          THEN c.req.canvasMode = (IF c.command \/ c.armedSincePost THEN "new" ELSE "append")
          ELSE c.req.canvasMode = ""

\* C36: a canvas-mode POST carries "new" exactly when its text starts with a
\* command or the new-canvas button was clicked since the last send that
\* completed with a response, in either mode, and "append" otherwise; a
\* chat-mode POST carries no canvas mode.
C36_OneShotPerCompletedSend ==
  \A i \in 1..Len(client.calls) :
    LET c == client.calls[i]
    IN  IF c.req.outputTarget = "canvas"
          THEN c.req.canvasMode = (IF c.command \/ c.armedSinceOk THEN "new" ELSE "append")
          ELSE c.req.canvasMode = ""

\* the button was clicked, a chat-mode send completed, and the canvas-mode
\* POST after it carries "append"
C36_Witness ==
  /\ client.sent = 2
  /\ Len(client.calls) = 1
  /\ client.calls[1].req.outputTarget = "canvas"
  /\ client.calls[1].armedSincePost
  /\ ~client.calls[1].armedSinceOk
  /\ ~client.calls[1].command
  /\ client.calls[1].req.canvasMode = "append"


(***************************************************************************)
(* Claims about interleaved requests                                       *)
(***************************************************************************)
\* the analysis row of file f, as step 1.1 writes it into conversation chat
AnalysisRow(f, chat) == AttachmentRows(UnboundFiles, chat, <<f>>)[1]

\* positions of the stored analysis rows of file f
AnalysisRowsOf(f) ==
  {i \in 1..Len(msgs) : msgs[i] = AnalysisRow(f, msgs[i].chat)}

\* C34: under any interleaving of message requests the analysis text of an
\* uploaded file is stored as a system turn at most once, and only in the
\* conversation the file is bound to.
C34_AnalysisInsertedOnce ==
  \A f \in FileIds :
    /\ Cardinality(AnalysisRowsOf(f)) <= 1
    /\ \A i \in AnalysisRowsOf(f) : files[f].chat \in {0, msgs[i].chat}

\* C38: a title set by rename, other than the default title, is not
\* overwritten by a turn: the conversation keeps the title of its last
\* rename.
C38_RenamedTitleKept ==
  \A c \in RenameChats :
    handlers.renamed[c] \notin {<<>>, DefaultTitle} => sessions[c].title = handlers.renamed[c]

====
